---- MODULE Spec2Model ----
(***************************************************************************)
(* Travelagent: the slot-filling chat handlers of the frontend server      *)
(* (server.js, POST /api/chat) and of the backend (routes/chat.js), with   *)
(* the date and city normalisers and the flight search they call.          *)
(*                                                                         *)
(* A user message is a string.  The pure helpers below work on strings    *)
(* character by character; the handlers are actions over the context the  *)
(* client echoes back on its next turn.                                    *)
(***************************************************************************)
EXTENDS Integers, Sequences, FiniteSets, TLC

VARIABLES
  route,      \* which handler this session talks to: "server" or "chat"
  ctx,        \* the context the client holds (the one last returned)
  request,    \* the request in flight: <<>> or <<what the handler reads from it>>
  response,   \* the last response, and what the handler did to give it
  cache,      \* CityValidationService.cache of the backend process
  offers,     \* the flight list a ranking call is given
  wanted,     \* the preference a ranking call is given
  results,    \* what the successive ranking calls on that list returned
  now,        \* the clock: the day a date is read on, Date.now() for the city cache
  typed,      \* the text a date parser or validateCity is given
  resolved    \* what the successive parses or lookups of a text gave

vars == <<route, ctx, request, response, cache, offers, wanted, results,
          now, typed, resolved>>

-----------------------------------------------------------------------------
(* Strings *)

UpperChars == "ABCDEFGHIJKLMNOPQRSTUVWXYZ"

LowerChars == "abcdefghijklmnopqrstuvwxyz"

DigitChars == "0123456789"

CharAt(s, i) == SubSeq(s, i, i)

\* String.prototype.substring on 1-based inclusive bounds, clamped to s
Slice(s, i, j) ==
  LET lo == IF i < 1 THEN 1 ELSE i
      hi == IF j > Len(s) THEN Len(s) ELSE j
  IN IF lo > hi THEN "" ELSE SubSeq(s, lo, hi)

\* the characters of a string, as a set
Chars(alphabet) == {CharAt(alphabet, i) : i \in 1..Len(alphabet)}

LowerSet == Chars(LowerChars)

UpperSet == Chars(UpperChars)

DigitSet == Chars(DigitChars)

IsLowerAlpha(c) == c \in LowerSet

IsDigit(c) == c \in DigitSet

\* \w of a JavaScript regular expression
WordSet == LowerSet \cup UpperSet \cup DigitSet \cup {"_"}


\* each capital with its small letter
LowerOf ==
  [c \in UpperSet |->
     CharAt(LowerChars, CHOOSE i \in 1..Len(UpperChars) : CharAt(UpperChars, i) = c)]

LowerChar(c) == IF c \in UpperSet THEN LowerOf[c] ELSE c

RECURSIVE toLowerCase(_)
toLowerCase(s) ==
  IF Len(s) = 0 THEN "" ELSE LowerChar(CharAt(s, 1)) \o toLowerCase(Slice(s, 2, Len(s)))

\* String.prototype.indexOf, 1-based; 0 when absent
IndexOf(h, n) ==
  LET hits == {i \in 1..(Len(h) - Len(n) + 1) : SubSeq(h, i, i + Len(n) - 1) = n}
  IN IF hits = {} THEN 0 ELSE CHOOSE i \in hits : \A j \in hits : i <= j

\* String.prototype.includes
Includes(h, n) ==
  \E i \in 1..(Len(h) - Len(n) + 1) : SubSeq(h, i, i + Len(n) - 1) = n

\* String.prototype.replace(keyword, '') : the first occurrence only
RemoveFirst(s, k) ==
  LET i == IndexOf(s, k)
  IN IF i = 0 THEN s ELSE Slice(s, 1, i - 1) \o Slice(s, i + Len(k), Len(s))

\* the maximal runs of non-space characters of s, in order
RECURSIVE WordsFrom(_, _, _)
WordsFrom(s, i, cur) ==
  IF i > Len(s) THEN (IF cur = "" THEN <<>> ELSE <<cur>>)
  ELSE IF CharAt(s, i) = " "
       THEN (IF cur = "" THEN <<>> ELSE <<cur>>) \o WordsFrom(s, i + 1, "")
       ELSE WordsFrom(s, i + 1, cur \o CharAt(s, i))

Words(s) == WordsFrom(s, 1, "")

RECURSIVE Join(_)
Join(ws) ==
  IF Len(ws) = 0 THEN ""
  ELSE IF Len(ws) = 1 THEN ws[1]
  ELSE ws[1] \o " " \o Join(Tail(ws))

\* .replace(/\s+/g, ' ').trim()
CollapseSpaces(s) == Join(Words(s))

\* .trim()
RECURSIVE trim(_)
trim(s) ==
  IF Len(s) = 0 THEN s
  ELSE IF CharAt(s, 1) = " " THEN trim(Slice(s, 2, Len(s)))
  ELSE IF CharAt(s, Len(s)) = " " THEN trim(Slice(s, 1, Len(s) - 1))
  ELSE s

\* .replace(/[,\-\.]/g, ' ')
RECURSIVE PunctToSpace(_)
PunctToSpace(s) ==
  IF Len(s) = 0 THEN ""
  ELSE (IF CharAt(s, 1) \in {",", "-", "."} THEN " " ELSE CharAt(s, 1))
       \o PunctToSpace(Slice(s, 2, Len(s)))

\* every character of s is of the class
AllChars(s, class) == \A i \in 1..Len(s) : CharAt(s, i) \in class

\* [a-z]+ : one word of the class [a-z\s]+
IsAlphaWord(w) == Len(w) > 0 /\ AllChars(w, LowerSet)

\* [a-z]{3}
IsAlpha3(w) == Len(w) = 3 /\ AllChars(w, LowerSet)

\* \w+
IsWWord(w) == Len(w) > 0 /\ AllChars(w, WordSet)

IsDigits(w) == Len(w) > 0 /\ AllChars(w, DigitSet)

DigitOf == [c \in DigitSet |-> (CHOOSE i \in 1..Len(DigitChars) : CharAt(DigitChars, i) = c) - 1]

DigitVal(c) == DigitOf[c]

RECURSIVE parseInt(_)
parseInt(w) ==
  IF Len(w) = 0 THEN 0
  ELSE 10 * parseInt(Slice(w, 1, Len(w) - 1)) + DigitVal(CharAt(w, Len(w)))

-----------------------------------------------------------------------------
(* Calendar: a date is <<year, month, day>>, month 1..12; NoDate is null   *)

NoDate == <<>>

IsLeap(y) == (y % 4 = 0 /\ y % 100 # 0) \/ y % 400 = 0

DaysInMonth(y, m) ==
  IF m = 2 THEN (IF IsLeap(y) THEN 29 ELSE 28)
  ELSE IF m \in {4, 6, 9, 11} THEN 30 ELSE 31

\* moment([y, m, d]).isValid()
ValidYMD(y, m, d) == m \in 1..12 /\ d >= 1 /\ d <= DaysInMonth(y, m)

\* days since 1970-01-01
DayNum(dt) ==
  LET y   == IF dt[2] <= 2 THEN dt[1] - 1 ELSE dt[1]
      era == y \div 400
      yoe == y - era * 400
      mp  == IF dt[2] > 2 THEN dt[2] - 3 ELSE dt[2] + 9
      doy == (153 * mp + 2) \div 5 + dt[3] - 1
      doe == yoe * 365 + yoe \div 4 - yoe \div 100 + doy
  IN era * 146097 + doe - 719468

FromDayNum(n) ==
  LET z   == n + 719468
      era == z \div 146097
      doe == z - era * 146097
      yoe == (doe - doe \div 1460 + doe \div 36524 - doe \div 146096) \div 365
      doy == doe - (365 * yoe + yoe \div 4 - yoe \div 100)
      mp  == (5 * doy + 2) \div 153
      d   == doy - (153 * mp + 2) \div 5 + 1
      m   == IF mp < 10 THEN mp + 3 ELSE mp - 9
      y   == yoe + era * 400
  IN <<IF m <= 2 THEN y + 1 ELSE y, m, d>>

\* moment#add(n, 'days')
AddDays(dt, n) == FromDayNum(DayNum(dt) + n)

\* moment#add(n, 'months'): the day is clamped to the end of the month
AddMonths(dt, n) ==
  LET k == (dt[2] - 1) + n
      y == dt[1] + k \div 12
      m == (k % 12) + 1
      d == IF dt[3] > DaysInMonth(y, m) THEN DaysInMonth(y, m) ELSE dt[3]
  IN <<y, m, d>>

\* moment#day(): 0 = Sunday .. 6 = Saturday
Weekday(dt) == (DayNum(dt) + 4) % 7

\* moment#day(i): the day i of the week of dt (i may exceed 6)
SetWeekday(dt, i) == AddDays(dt, i - Weekday(dt))

\* isBefore with the comparison left out: no date counts as past
isBeforeSkipped(a, b) == FALSE

\* moment#isBefore(other, 'day')
IsBeforeDay(a, b) == DayNum(a) < DayNum(b)

\* moment#isAfter(other, 'day')
IsAfterDay(a, b) == DayNum(a) > DayNum(b)

\* JavaScript null, for every slot that holds a string
NULL == "null"

Pad2(n) == IF n < 10 THEN "0" \o ToString(n) ELSE ToString(n)

Pad4(n) ==
  IF n < 10 THEN "000" \o ToString(n)
  ELSE IF n < 100 THEN "00" \o ToString(n)
  ELSE IF n < 1000 THEN "0" \o ToString(n)
  ELSE ToString(n)

\* moment#format('YYYY-MM-DD'); null stays null
FormatISO(dt) ==
  IF dt = NoDate THEN NULL ELSE Pad4(dt[1]) \o "-" \o Pad2(dt[2]) \o "-" \o Pad2(dt[3])

MonthShortCap == <<"Jan", "Feb", "Mar", "Apr", "May", "Jun", "Jul", "Aug", "Sep", "Oct", "Nov", "Dec">>

\* moment#format('DD MMM YYYY')
FormatDMY(dt) == Pad2(dt[3]) \o " " \o MonthShortCap[dt[2]] \o " " \o Pad4(dt[1])

-----------------------------------------------------------------------------
(* Dates: server.js validateDate and its helpers *)

daysOfWeek == <<"sunday", "monday", "tuesday", "wednesday", "thursday", "friday", "saturday">>

MonthShort == <<"jan", "feb", "mar", "apr", "may", "jun", "jul", "aug", "sep", "oct", "nov", "dec">>

MonthLong == <<"january", "february", "march", "april", "may", "june", "july", "august",
               "september", "october", "november", "december">>

\* the strict-mode format list, each format split into its tokens
formats == <<
  <<"YYYY", "-", "MM", "-", "DD">>, <<"DD", "-", "MM", "-", "YYYY">>,
  <<"DD", "/", "MM", "/", "YYYY">>, <<"MM", "/", "DD", "/", "YYYY">>,
  <<"DD", " ", "MMM", " ", "YYYY">>, <<"DD", " ", "MMMM", " ", "YYYY">>,
  <<"MMM", " ", "DD", ",", " ", "YYYY">>, <<"MMMM", " ", "DD", ",", " ", "YYYY">>,
  <<"DD", "-", "MM", "-", "YY">>, <<"DD", "/", "MM", "/", "YY">>,
  <<"MM", "/", "DD", "/", "YY">>, <<"YYYY", "/", "MM", "/", "DD">>,
  <<"DD", ".", "MM", ".", "YYYY">>, <<"MM", "-", "DD", "-", "YYYY">>,
  <<"DD", "-", "MMM", "-", "YYYY">>,
  <<"DD", " ", "MMM">>, <<"MMM", " ", "DD">>, <<"DD", " ", "MMMM">>, <<"MMMM", " ", "DD">> >>

\* the number of leading digits of s
RECURSIVE LeadingDigits(_)
LeadingDigits(s) ==
  IF Len(s) > 0 /\ IsDigit(CharAt(s, 1)) THEN 1 + LeadingDigits(Slice(s, 2, Len(s))) ELSE 0

\* the number of leading letters of s
RECURSIVE LeadingLetters(_)
LeadingLetters(s) ==
  IF Len(s) > 0 /\ IsLowerAlpha(LowerChar(CharAt(s, 1)))
  THEN 1 + LeadingLetters(Slice(s, 2, Len(s))) ELSE 0

MonthIndex(names, w) ==
  IF \E i \in 1..12 : names[i] = toLowerCase(w)
  THEN CHOOSE i \in 1..12 : names[i] = toLowerCase(w)
  ELSE 0

\* moment(s, format, true): every token must match exactly and the whole
\* input must be used; a format without a year takes the current year
RECURSIVE StrictFrom(_, _, _, _, _)
StrictFrom(s, fmt, y, m, d) ==
  IF Len(fmt) = 0
  THEN (IF Len(s) = 0 /\ ValidYMD(y, m, d) THEN <<y, m, d>> ELSE NoDate)
  ELSE
    LET tok  == Head(fmt)
        nd   == LeadingDigits(s)
        nl   == LeadingLetters(s)
        take(n) == Slice(s, 1, n)
        drop(n) == Slice(s, n + 1, Len(s))
    IN CASE tok = "YYYY" ->
              IF nd >= 4 THEN StrictFrom(drop(4), Tail(fmt), parseInt(take(4)), m, d) ELSE NoDate
         [] tok = "YY" ->
              IF nd >= 2
              THEN StrictFrom(drop(2), Tail(fmt),
                              parseInt(take(2)) + (IF parseInt(take(2)) > 68 THEN 1900 ELSE 2000), m, d)
              ELSE NoDate
         [] tok = "MM" ->
              IF nd >= 2 THEN StrictFrom(drop(2), Tail(fmt), y, parseInt(take(2)), d) ELSE NoDate
         [] tok = "DD" ->
              IF nd >= 2 THEN StrictFrom(drop(2), Tail(fmt), y, m, parseInt(take(2))) ELSE NoDate
         [] tok = "MMM" ->
              IF nl >= 3 /\ MonthIndex(MonthShort, take(3)) # 0
              THEN StrictFrom(drop(3), Tail(fmt), y, MonthIndex(MonthShort, take(3)), d)
              ELSE NoDate
         [] tok = "MMMM" ->
              IF nl >= 3 /\ MonthIndex(MonthLong, take(nl)) # 0
              THEN StrictFrom(drop(nl), Tail(fmt), y, MonthIndex(MonthLong, take(nl)), d)
              ELSE NoDate
         [] OTHER ->
              IF Len(s) > 0 /\ CharAt(s, 1) = tok
              THEN StrictFrom(drop(1), Tail(fmt), y, m, d) ELSE NoDate

StrictParse(s, fmt, today) == StrictFrom(s, fmt, today[1], 0, 0)

\* moment(s, formats, true): the first format that parses validly
StrictParseAny(s, fs, today) ==
  LET ok == {i \in 1..Len(fs) : StrictParse(s, fs[i], today) # NoDate}
  IN IF ok = {} THEN NoDate
     ELSE StrictParse(s, fs[CHOOSE i \in ok : \A j \in ok : i <= j], today)

\* moment(s) on an ISO 8601 calendar date YYYY-MM-DD
IsIsoShape(s) ==
  /\ Len(s) = 10
  /\ CharAt(s, 5) = "-" /\ CharAt(s, 8) = "-"
  /\ IsDigits(SubSeq(s, 1, 4)) /\ IsDigits(SubSeq(s, 6, 7)) /\ IsDigits(SubSeq(s, 9, 10))

\* the formats other than ISO 8601 that new Date(s) reads in V8, month
\* first where the month is a number
legacyFormats == <<
  <<"MM", "/", "DD", "/", "YYYY">>, <<"MM", "-", "DD", "-", "YYYY">>,
  <<"YYYY", "/", "MM", "/", "DD">>,
  <<"DD", " ", "MMM", " ", "YYYY">>, <<"DD", " ", "MMMM", " ", "YYYY">>,
  <<"MMM", " ", "DD", ",", " ", "YYYY">>, <<"MMMM", " ", "DD", ",", " ", "YYYY">>,
  <<"DD", "-", "MMM", "-", "YYYY">> >>

\* the digits of s are one run of one or two digits
OneSmallNumber(s) ==
  LET hits == {i \in 1..Len(s) : IsDigit(CharAt(s, i))}
  IN /\ hits # {}
     /\ Cardinality(hits) <= 2
     /\ \A i, j \in hits : i - j <= 1

\* what new Date(s) may give for s, which the language leaves to the
\* implementation for a string that is no ISO date: Invalid Date, or the
\* date read by one of the legacy formats, or, for a string with one small
\* number in it, possibly a day of 2001 (V8 reads the number as a month
\* or as a day of that year)
LegacyOutcomes(s) ==
  IF IsIsoShape(s) THEN {NoDate}
  ELSE IF StrictParseAny(s, legacyFormats, <<2001, 1, 1>>) # NoDate
  THEN {NoDate, StrictParseAny(s, legacyFormats, <<2001, 1, 1>>)}
  ELSE IF OneSmallNumber(s)
  THEN {NoDate, <<2001, 1, 1>>}
  ELSE {NoDate}

\* moment(s): ISO 8601 first, otherwise whatever new Date(s) gives
MomentParse(s, legacy) ==
  IF IsIsoShape(s)
  THEN LET y == parseInt(SubSeq(s, 1, 4))
           m == parseInt(SubSeq(s, 6, 7))
           d == parseInt(SubSeq(s, 9, 10))
       IN IF ValidYMD(y, m, d) THEN <<y, m, d>> ELSE NoDate
  ELSE legacy

\* the digits matched by /in (\d+) <unit>s?/ at the leftmost match, "" if none
InAmount(s, unit) ==
  LET at(p) == LET rest == Slice(s, p + 3, Len(s))
                   k    == LeadingDigits(rest)
               IN IF /\ Slice(s, p, p + 2) = "in "
                     /\ k > 0
                     /\ Slice(rest, k + 1, k + 1 + Len(unit)) = " " \o unit
                  THEN Slice(rest, 1, k) ELSE ""
      hits == {p \in 1..Len(s) : at(p) # ""}
  IN IF hits = {} THEN "" ELSE at(CHOOSE p \in hits : \A q \in hits : p <= q)

\* the digits matched by /^(\d{1,2})(?:st|nd|rd|th)?$/, "" if no match
dayOnlyMatch(s) ==
  LET k == LeadingDigits(s)
      rest == Slice(s, k + 1, Len(s))
  IN IF k \in {1, 2} /\ rest \in {"", "st", "nd", "rd", "th"} THEN Slice(s, 1, k) ELSE ""

\* handlePartialDate taking the day of the current month whenever that is
\* a date, also when it is today or already past
handlePartialDateThisMonth(day, today) ==
  IF ValidYMD(today[1], today[2], day) THEN <<today[1], today[2], day>>
  ELSE IF ValidYMD(today[1] + (IF today[2] = 12 THEN 1 ELSE 0),
                   IF today[2] = 12 THEN 1 ELSE today[2] + 1, day)
  THEN <<today[1] + (IF today[2] = 12 THEN 1 ELSE 0), IF today[2] = 12 THEN 1 ELSE today[2] + 1, day>>
  ELSE NoDate

handlePartialDate(day, today) ==
  LET currentYear  == today[1]
      currentMonth == today[2]
      nextMonth     == IF currentMonth = 12 THEN 1 ELSE currentMonth + 1
      nextMonthYear == IF currentMonth = 12 THEN currentYear + 1 ELSE currentYear
  IN IF ValidYMD(currentYear, currentMonth, day)
        /\ IsAfterDay(<<currentYear, currentMonth, day>>, today)
     THEN <<currentYear, currentMonth, day>>
     ELSE IF ValidYMD(nextMonthYear, nextMonth, day) THEN <<nextMonthYear, nextMonth, day>>
     ELSE IF ValidYMD(currentYear + 1, currentMonth, day) THEN <<currentYear + 1, currentMonth, day>>
     ELSE NoDate

\* validateDate, lines 292-298: whether dateString is resolved as a day of
\* the month alone
viaPartialDate(dateString) ==
  /\ dayOnlyMatch(trim(toLowerCase(dateString))) # ""
  /\ parseInt(dayOnlyMatch(trim(toLowerCase(dateString)))) >= 1
  /\ parseInt(dayOnlyMatch(trim(toLowerCase(dateString)))) <= 31

isPartialDateInput(input) ==
  LET m == dayOnlyMatch(toLowerCase(input))
  IN m # "" /\ parseInt(m) >= 1 /\ parseInt(m) <= 31

\* the first weekday index i (0..6) with "<prefix> <weekday>" in s, or 7
FirstWeekday(s, prefix) ==
  LET hits == {i \in 1..7 : Includes(s, prefix \o " " \o daysOfWeek[i])}
  IN IF hits = {} THEN 7 ELSE (CHOOSE i \in hits : \A j \in hits : i <= j) - 1

\* validateDate after its first line, lowerString being
\* dateString.toLowerCase().trim(): the moment it resolves to
validateLowered(lowerString, dateString, today, legacy) ==
  LET nextDay == FirstWeekday(lowerString, "next")
      thisDay == FirstWeekday(lowerString, "this")
      inDays   == InAmount(lowerString, "day")
      inWeeks  == InAmount(lowerString, "week")
      inMonths == InAmount(lowerString, "month")
      dayOnly  == dayOnlyMatch(lowerString)
      flexible == MomentParse(dateString, legacy)
      date == IF flexible # NoDate THEN flexible ELSE StrictParseAny(dateString, formats, today)
  IN IF Includes(lowerString, "tomorrow") THEN AddDays(today, 1)
     ELSE IF Includes(lowerString, "day after tomorrow") THEN AddDays(today, 2)
     ELSE IF Includes(lowerString, "next week") THEN AddDays(today, 7)
     ELSE IF Includes(lowerString, "next month") THEN AddMonths(today, 1)
     ELSE IF Includes(lowerString, "next year") THEN AddMonths(today, 12)
     ELSE IF nextDay < 7 THEN SetWeekday(today, nextDay + 7)
     ELSE IF thisDay < 7
          \* moment().day(i) is never after a later moment() on day i itself
          THEN (IF thisDay > Weekday(today) THEN SetWeekday(today, thisDay)
                ELSE SetWeekday(today, thisDay + 7))
     ELSE IF inDays # "" THEN AddDays(today, parseInt(inDays))
     ELSE IF inWeeks # "" THEN AddDays(today, 7 * parseInt(inWeeks))
     ELSE IF inMonths # "" THEN AddMonths(today, parseInt(inMonths))
     ELSE IF dayOnly # "" /\ parseInt(dayOnly) >= 1 /\ parseInt(dayOnly) <= 31
          THEN handlePartialDate(parseInt(dayOnly), today)
     ELSE IF date = NoDate THEN NoDate
     ELSE IF IsBeforeDay(date, today) THEN NoDate
     ELSE date

\* validateDate before its final .format()
validateDateMoment(dateString, today, legacy) ==
  validateLowered(trim(toLowerCase(dateString)), dateString, today, legacy)

validateDate(dateString, today, legacy) == FormatISO(validateDateMoment(dateString, today, legacy))

validatePreference(preference) == toLowerCase(preference) \in {"price", "time", "convenience"}

-----------------------------------------------------------------------------
(* server.js parseSingleLineFlightRequest *)

NoMatch == [matched |-> FALSE]

Groups(o, d, r) == [matched |-> TRUE, g1 |-> o, g2 |-> d, g3 |-> r]

Min(a, b) == IF a < b THEN a ELSE b

\* how many leading words of ws are alphabetic
RECURSIVE LeadingAlphaWords(_)
LeadingAlphaWords(ws) ==
  IF Len(ws) > 0 /\ IsAlphaWord(Head(ws)) THEN 1 + LeadingAlphaWords(Tail(ws)) ELSE 0

\* /^([a-z]{3})\s+to\s+([a-z]{3})\s+(.+)$/
Pattern3To3(ws) ==
  IF Len(ws) >= 4 /\ IsAlpha3(ws[1]) /\ ws[2] = "to" /\ IsAlpha3(ws[3])
  THEN Groups(ws[1], ws[3], Join(SubSeq(ws, 4, Len(ws))))
  ELSE NoMatch

\* /^([a-z\s]+)\s+to\s+([a-z\s]+)\s+(.+)$/ : both groups are greedy, so the
\* last usable "to" splits the words and the second group takes every
\* alphabetic word that still leaves one word for the third
PatternTo(ws) ==
  LET n == Len(ws)
      k == LeadingAlphaWords(ws)
      splits == {i \in 2..(n - 2) : ws[i] = "to" /\ i - 1 <= k /\ IsAlphaWord(ws[i + 1])}
      i == CHOOSE x \in splits : \A y \in splits : y <= x
      j == i + Min(LeadingAlphaWords(SubSeq(ws, i + 1, n)), n - 1 - i)
  IN IF splits = {} THEN NoMatch
     ELSE Groups(Join(SubSeq(ws, 1, i - 1)), Join(SubSeq(ws, i + 1, j)), Join(SubSeq(ws, j + 1, n)))

\* /^([a-z]{3})\s+([a-z]{3})\s+(.+)$/
Pattern33(ws) ==
  IF Len(ws) >= 3 /\ IsAlpha3(ws[1]) /\ IsAlpha3(ws[2])
  THEN Groups(ws[1], ws[2], Join(SubSeq(ws, 3, Len(ws))))
  ELSE NoMatch

\* /^([a-z\s]+)\s+([a-z\s]+)\s+(.+)$/ : the first group is greedy, so the
\* second is the last alphabetic word that still leaves one for the third
PatternWords(ws) ==
  LET n == Len(ws)
      j == Min(LeadingAlphaWords(ws), n - 1)
  IN IF j >= 2
     THEN Groups(Join(SubSeq(ws, 1, j - 1)), ws[j], Join(SubSeq(ws, j + 1, n)))
     ELSE NoMatch

\* /^<w1>\s+<w2>\s+([a-z\s]+)\s+to\s+([a-z\s]+)\s+(.+)$/
PatternPrefixed(ws, first, second) ==
  IF Len(ws) >= 2 /\ ws[1] \in first /\ ws[2] \in second
  THEN PatternTo(SubSeq(ws, 3, Len(ws)))
  ELSE NoMatch

patterns(ws) == <<
  Pattern3To3(ws),
  PatternTo(ws),
  Pattern33(ws),
  PatternWords(ws),
  PatternPrefixed(ws, {"flight", "flights"}, {"from"}),
  PatternPrefixed(ws, {"search"}, {"flight", "flights"}),
  PatternPrefixed(ws, {"book"}, {"flight"}) >>

\* the first pattern of the list that matches, or NoMatch
FirstMatch(ms) ==
  LET hits == {i \in 1..Len(ms) : ms[i].matched}
  IN IF hits = {} THEN NoMatch ELSE ms[CHOOSE i \in hits : \A j \in hits : i <= j]

preferenceKeywords == <<
  <<"cheap", "price">>, <<"cheapest", "price">>, <<"budget", "price">>, <<"price", "price">>,
  <<"fast", "time">>, <<"fastest", "time">>, <<"quick", "time">>, <<"time", "time">>,
  <<"convenient", "convenience">>, <<"convenience", "convenience">>,
  <<"comfort", "convenience">>, <<"direct", "convenience">> >>

\* the index of the first keyword contained in s, 0 if none
FirstKeyword(s) ==
  LET hits == {i \in 1..Len(preferenceKeywords) : Includes(s, preferenceKeywords[i][1])}
  IN IF hits = {} THEN 0 ELSE CHOOSE i \in hits : \A j \in hits : i <= j

\* the body of the loop of parseSingleLineFlightRequest for the pattern
\* that matched: date0 is the third group trimmed, kw the index of the
\* first preference keyword in it
ParsedRequest(match, date0, kw) ==
  [matched     |-> TRUE,
   origin      |-> trim(match.g1),
   destination |-> trim(match.g2),
   date        |-> trim(CollapseSpaces(PunctToSpace(
                     IF kw = 0 THEN date0
                     ELSE trim(RemoveFirst(date0, preferenceKeywords[kw][1]))))),
   preference  |-> IF kw = 0 THEN NULL ELSE preferenceKeywords[kw][2]]

ParsedMatch(match) ==
  IF ~match.matched THEN NoMatch
  ELSE ParsedRequest(match, trim(match.g3), FirstKeyword(trim(match.g3)))

parseSingleLineFlightRequest(message) ==
  ParsedMatch(FirstMatch(patterns(Words(trim(toLowerCase(message))))))

-----------------------------------------------------------------------------
(* backend/utils/dates.js DateUtils *)

\* the digits matched by the unanchored /(\d{1,2})(?:st|nd|rd|th)?/ : the
\* first one or two digits found anywhere in s, "" if s has no digit
dayOnly(s) ==
  LET hits == {i \in 1..Len(s) : IsDigit(CharAt(s, i))}
      p == CHOOSE i \in hits : \A j \in hits : i <= j
  IN IF hits = {} THEN ""
     ELSE Slice(s, p, p + Min(LeadingDigits(Slice(s, p, Len(s))), 2) - 1)

\* /^[a-z]{3}\s+\d{1,2}$/ or /^\d{1,2}\s+[a-z]{3}$/
IsMonthDayShape(s) ==
  LET ws == Words(s)
      num(w) == Len(w) \in {1, 2} /\ IsDigits(w)
  IN /\ Len(ws) = 2
     /\ Len(s) > 0 /\ CharAt(s, 1) # " " /\ CharAt(s, Len(s)) # " "
     /\ \/ IsAlpha3(ws[1]) /\ num(ws[2])
        \/ num(ws[1]) /\ IsAlpha3(ws[2])

_handlePartialDate(day, today) ==
  LET currentYear  == today[1]
      currentMonth == today[2]
      nextMonth     == IF currentMonth = 12 THEN 1 ELSE currentMonth + 1
      nextMonthYear == IF currentMonth = 12 THEN currentYear + 1 ELSE currentYear
  IN IF ValidYMD(currentYear, currentMonth, day)
        /\ IsAfterDay(<<currentYear, currentMonth, day>>, today)
     THEN <<currentYear, currentMonth, day>>
     ELSE IF ValidYMD(nextMonthYear, nextMonth, day) THEN <<nextMonthYear, nextMonth, day>>
     ELSE IF ValidYMD(currentYear + 1, currentMonth, day) THEN <<currentYear + 1, currentMonth, day>>
     ELSE NoDate

\* parseDate after its first lines, input being
\* dateInput.toLowerCase().trim(): the moment it resolves to
parseLowered(input, dateInput, today) ==
  LET nextDay == FirstWeekday(input, "next")
      thisDay == FirstWeekday(input, "this")
      inDays   == InAmount(input, "day")
      inWeeks  == InAmount(input, "week")
      inMonths == InAmount(input, "month")
      day      == dayOnly(input)
      monthDay == StrictParseAny(dateInput, << <<"MMM", " ", "DD">>, <<"DD", " ", "MMM">> >>, today)
      parsed   == StrictParseAny(dateInput, formats, today)
  IN IF dateInput = "" THEN NoDate
     ELSE IF input = "today" THEN today
     ELSE IF input = "tomorrow" THEN AddDays(today, 1)
     ELSE IF input = "day after tomorrow" THEN AddDays(today, 2)
     ELSE IF Includes(input, "next week") THEN AddDays(today, 7)
     ELSE IF Includes(input, "next month") THEN AddMonths(today, 1)
     ELSE IF Includes(input, "next year") THEN AddMonths(today, 12)
     ELSE IF nextDay < 7 THEN SetWeekday(today, nextDay + 7)
     ELSE IF thisDay < 7
          THEN (IF thisDay > Weekday(today) THEN SetWeekday(today, thisDay)
                ELSE SetWeekday(today, thisDay + 7))
     ELSE IF inDays # "" THEN AddDays(today, parseInt(inDays))
     ELSE IF inWeeks # "" THEN AddDays(today, 7 * parseInt(inWeeks))
     ELSE IF inMonths # "" THEN AddMonths(today, parseInt(inMonths))
     ELSE IF day # "" /\ parseInt(day) >= 1 /\ parseInt(day) <= 31
          THEN _handlePartialDate(parseInt(day), today)
     ELSE IF IsMonthDayShape(input) /\ monthDay # NoDate
          THEN (IF IsBeforeDay(monthDay, today) THEN AddMonths(monthDay, 12) ELSE monthDay)
     ELSE IF parsed = NoDate THEN NoDate
     ELSE IF IsBeforeDay(parsed, today) THEN NoDate
     ELSE parsed

\* parseDate before its final .format()
parseDateMoment(dateInput, today) == parseLowered(toLowerCase(trim(dateInput)), dateInput, today)

parseDate(dateInput, today) == FormatISO(parseDateMoment(dateInput, today))

\* moment(s, 'YYYY-MM-DD', true)
ParseISOStrict(s, today) == StrictParse(s, <<"YYYY", "-", "MM", "-", "DD">>, today)

isValidFutureDate(dateString, today) ==
  /\ dateString # NULL
  /\ ParseISOStrict(dateString, today) # NoDate
  /\ DayNum(ParseISOStrict(dateString, today)) > DayNum(today)

\* DateUtils.isPartialDateInput
dateUtilsIsPartialDateInput(dateInput) ==
  LET input == toLowerCase(trim(dateInput))
  IN /\ dateInput # ""
     /\ \/ dayOnlyMatch(input) # ""
        \/ IsMonthDayShape(input)
        \/ Includes(input, "next ")
        \/ Includes(input, "this ")

-----------------------------------------------------------------------------
(* routes/chat.js parseSingleLineFlightRequest *)

EndsWith(w, suffix) ==
  Len(w) >= Len(suffix) /\ Slice(w, Len(w) - Len(suffix) + 1, Len(w)) = suffix

\* One element of a pattern against one word: <<"end", s>> is the literal
\* that opens an unanchored pattern (it may end a longer word), <<"lit", S>>
\* a literal word, <<"cap">> a (\w+) group.
ElementMatches(e, w) ==
  CASE e[1] = "end" -> EndsWith(toLowerCase(w), e[2])
    [] e[1] = "lit" -> toLowerCase(w) \in e[2]
    [] e[1] = "cap" -> IsWWord(w)

\* the pattern es followed by \s+(.+), tried at every admissible start and
\* matched at the leftmost; the groups are the words under "cap"
PatternSeq(ws, es, anchored) ==
  LET n == Len(ws)
      starts == {i \in 1..(n - Len(es)) :
                   /\ anchored => i = 1
                   /\ \A k \in 1..Len(es) : ElementMatches(es[k], ws[i + k - 1])}
      i == CHOOSE x \in starts : \A y \in starts : x <= y
      caps == {k \in 1..Len(es) : es[k][1] = "cap"}
      c1 == CHOOSE k \in caps : \A l \in caps : k <= l
      c2 == CHOOSE k \in caps : \A l \in caps : l <= k
  IN IF starts = {} THEN NoMatch
     ELSE Groups(ws[i + c1 - 1], ws[i + c2 - 1], Join(SubSeq(ws, i + Len(es), n)))

Flights == {"flight", "flights"}

chatPatterns(ws) == <<
  PatternSeq(ws, << <<"end", "book">>, <<"cap">>, <<"lit", {"to"}>>, <<"cap">> >>, FALSE),
  PatternSeq(ws, << <<"end", "find">>, <<"lit", Flights>>, <<"lit", {"from"}>>,
                    <<"cap">>, <<"lit", {"to"}>>, <<"cap">> >>, FALSE),
  PatternSeq(ws, << <<"cap">>, <<"cap">> >>, TRUE),
  PatternSeq(ws, << <<"end", "i">>, <<"lit", {"want"}>>, <<"lit", {"to"}>>, <<"lit", {"go"}>>,
                    <<"lit", {"from"}>>, <<"cap">>, <<"lit", {"to"}>>, <<"cap">> >>, FALSE),
  PatternSeq(ws, << <<"end", "search">>, <<"lit", Flights>>,
                    <<"cap">>, <<"lit", {"to"}>>, <<"cap">> >>, FALSE),
  PatternSeq(ws, << <<"end", "flight">>, <<"lit", {"from"}>>,
                    <<"cap">>, <<"lit", {"to"}>>, <<"cap">> >>, FALSE),
  PatternSeq(ws, << <<"cap">>, <<"lit", {"to"}>>, <<"cap">> >>, TRUE),
  PatternSeq(ws, << <<"end", "cheap">>, <<"lit", Flights>>, <<"cap">>, <<"cap">> >>, FALSE),
  PatternSeq(ws, << <<"end", "fastest">>, <<"lit", Flights>>, <<"lit", {"from"}>>,
                    <<"cap">>, <<"lit", {"to"}>>, <<"cap">> >>, FALSE) >>

\* the body of the loop of the route's parseSingleLineFlightRequest for the
\* pattern that matched: kw is the index of the first preference keyword
\* in the lowered message
ChatParsedRequest(match, kw) ==
  IF ~match.matched THEN NoMatch
  ELSE [matched     |-> TRUE,
        origin      |-> trim(match.g1),
        destination |-> trim(match.g2),
        date        |-> trim(CollapseSpaces(PunctToSpace(trim(match.g3)))),
        preference  |-> IF kw = 0 THEN "price" ELSE preferenceKeywords[kw][2]]

chatParseSingleLineFlightRequest(message) ==
  ChatParsedRequest(FirstMatch(chatPatterns(Words(message))),
                    FirstKeyword(trim(toLowerCase(message))))

-----------------------------------------------------------------------------
(* Cities *)

\* The city service behind /api/cities/match and /api/cities/search: the
\* names and aliases it knows, each with its airport code.
CityDirectory == <<
  <<"mumbai", "BOM">>, <<"bombay", "BOM">>, <<"bom", "BOM">>,
  <<"delhi", "DEL">>, <<"del", "DEL">> >>

\* the service's answer to one request: null when the request fails or
\* the service knows no such city
CityService(input, up) ==
  LET key  == toLowerCase(trim(input))
      hits == {i \in 1..Len(CityDirectory) : CityDirectory[i][1] = key}
  IN IF up /\ hits # {} THEN CityDirectory[CHOOSE i \in hits : TRUE][2] ELSE NULL

\* server.js validateCityCode: the code of the city found, or null
validateCityCode(cityCode, up) == CityService(cityCode, up)

\* server.js findCityMatch: the code of the city found, or null
findCityMatch(input, up) == CityService(input, up)

cityMappings == <<
  <<"delhi", "DEL">>, <<"mumbai", "BOM">>, <<"bangalore", "BLR">>, <<"chennai", "MAA">>,
  <<"kolkata", "CCU">>, <<"hyderabad", "HYD">>, <<"pune", "PNQ">>, <<"ahmedabad", "AMD">>,
  <<"jaipur", "JAI">>, <<"kochi", "COK">>, <<"goa", "GOI">>, <<"chandigarh", "IXC">>,
  <<"lucknow", "LKO">>, <<"bhubaneswar", "BBI">>, <<"indore", "IDR">>, <<"coimbatore", "CJB">>,
  <<"vadodara", "BDQ">>, <<"nagpur", "NAG">>, <<"visakhapatnam", "VTZ">>, <<"madurai", "IXM">> >>

_validateViaLocalMapping(cityName) ==
  LET direct  == {i \in 1..Len(cityMappings) : cityMappings[i][1] = cityName}
      partial == {i \in 1..Len(cityMappings) :
                    \/ Includes(cityMappings[i][1], cityName)
                    \/ Includes(cityName, cityMappings[i][1])}
  IN IF direct # {} THEN cityMappings[CHOOSE i \in direct : TRUE][2]
     ELSE IF partial # {} THEN cityMappings[CHOOSE i \in partial : \A j \in partial : i <= j][2]
     ELSE NULL

_validateViaBackendAPI(cityName, up) == CityService(cityName, up)

\* What validateCity reads from a city name: the normalized name and what
\* each of the two lookups makes of it, the first for each state of the
\* city service
CityRead(cityName, normalizedName) ==
  [given          |-> cityName # "" /\ cityName # NULL,
   normalizedName |-> normalizedName,
   api            |-> [up \in BOOLEAN |-> _validateViaBackendAPI(normalizedName, up)],
   local          |-> _validateViaLocalMapping(normalizedName)]

CityReading(cityName) == CityRead(cityName, toLowerCase(trim(cityName)))

\* CityValidationService.validateCity of a name read as city, on cache c:
\* the code found (or null) and the cache it leaves.  fresh says whether a
\* cached entry is younger than cacheTimeout.
validateCity(city, c, up, fresh) ==
  LET normalizedName == city.normalizedName
      afterCheck == IF normalizedName \in DOMAIN c /\ ~fresh
                    THEN [n \in DOMAIN c \ {normalizedName} |-> c[n]]
                    ELSE c
      cityInfo  == city.api[up]
      localInfo == city.local
  IN IF ~city.given THEN [data |-> NULL, cache |-> c]
     ELSE IF normalizedName \in DOMAIN c /\ fresh THEN [data |-> c[normalizedName], cache |-> c]
     ELSE IF cityInfo # NULL
          THEN [data |-> cityInfo, cache |-> (normalizedName :> cityInfo) @@ afterCheck]
     ELSE IF localInfo # NULL
          THEN [data |-> localInfo, cache |-> (normalizedName :> localInfo) @@ afterCheck]
     ELSE [data |-> NULL, cache |-> afterCheck]

-----------------------------------------------------------------------------
(* Flights *)

\* the largest number of offers a flight-data response carries in the model
MaxOffers == 2

\* what one call of the Amadeus client may do
FlightOutcomes == {"uninitialised", "throws", "nodata", "empty", "data"}

\* the answers of the flight source: what the call does and, when it
\* returns offers, how many
FlightAnswers ==
  {<<outcome, 0>> : outcome \in FlightOutcomes \ {"data"}}
    \cup {<<"data", n>> : n \in 1..MaxOffers}

\* an offer list, by where it comes from and how long it is
Offers(source, n) == [source |-> source, count |-> n]

\* server.js generateMockFlights: 10 to 15 flights
generateMockFlights(numFlights) == Offers("mock", numFlights)

MockCounts == 10..15

\* server.js searchFlightsWithAmadeus
searchFlightsWithAmadeus(outcome, n, numFlights) ==
  IF outcome = "uninitialised" THEN generateMockFlights(numFlights)
  ELSE IF outcome = "throws" THEN generateMockFlights(numFlights)
  ELSE IF outcome = "nodata" \/ outcome = "empty" \/ n = 0 THEN generateMockFlights(numFlights)
  ELSE Offers("amadeus", n)

\* server.js rankFlights: one entry per category, in this order
rankFlights(flights) == <<"Cheapest Price", "Shortest Duration", "Most Convenient">>

Threw == [threw |-> TRUE, source |-> NULL, count |-> 0]

Returned(source, n) == [threw |-> FALSE, source |-> source, count |-> n]

\* mockFlights.generateMockFlights(origin, destination, date, count):
\* _createEnhancedMockFlight passes the number from _generateDuration to
\* _parseDurationToMinutes, whose duration.match(...) throws on a number
mockFlightsGenerate(count) == IF count = 0 THEN Returned("mock", 0) ELSE Threw

\* AmadeusClient._getMockFlights asks for options.max || 15
_getMockFlights == mockFlightsGenerate(15)

\* AmadeusClient.searchFlights
amadeusClientSearchFlights(outcome, n) ==
  IF outcome = "uninitialised" THEN _getMockFlights
  ELSE IF outcome = "throws" THEN _getMockFlights
  ELSE IF outcome = "nodata" THEN _getMockFlights
  ELSE IF outcome = "empty" THEN Returned("amadeus", 0)
  ELSE Returned("amadeus", n)

\* routes/chat.js searchFlights
searchFlights(outcome, n) ==
  LET first == IF outcome # "uninitialised"
               THEN amadeusClientSearchFlights(outcome, n)
               ELSE mockFlightsGenerate(15)
  IN IF first.threw THEN mockFlightsGenerate(15) ELSE first

\* RankingService.rankFlights on what the chat route hands it: [] for an
\* empty list; otherwise _calculateDurationScore reads
\* flight.itineraries[0], and neither the processed Amadeus offers nor the
\* mock offers have an itineraries key, so it throws
rankingRankFlights(flights) ==
  IF flights.count = 0 THEN [threw |-> FALSE, ranked |-> <<>>]
  ELSE [threw |-> TRUE, ranked |-> <<>>]

-----------------------------------------------------------------------------
(* Ranking: server.js rankFlights and the backend's RankingService.  A    *)
(* score in [0,1] is held as a whole number of the unit named with it.    *)

\* the largest number of offers in a list that is ranked
MaxFlights == 3

\* a sort that was never made: the list as it was given
unsorted(xs, keys) == xs

\* a sort with the comparator's operands the other way round: xs in
\* descending order of keys
sortDescending(xs, keys) ==
  CHOOSE sorted \in
    {[p \in 1..Len(x) |->
        x[CHOOSE i \in 1..Len(x) :
            p = 1 + Cardinality({j \in 1..Len(x) :
                      k[j] > k[i] \/ (k[j] = k[i] /\ j < i)})]] :
       <<x, k>> \in {<<xs, keys>>}} : TRUE

\* Array.prototype.sort with a comparator that subtracts keys: xs in
\* ascending order of keys, elements of equal key in their given order
\* (x and k stand for xs and keys, each worked out once)
sort(xs, keys) ==
  CHOOSE sorted \in
    {[p \in 1..Len(x) |->
        x[CHOOSE i \in 1..Len(x) :
            p = 1 + Cardinality({j \in 1..Len(x) :
                      k[j] < k[i] \/ (k[j] = k[i] /\ j < i)})]] :
       <<x, k>> \in {<<xs, keys>>}} : TRUE

\* flights as searchFlightsWithAmadeus and generateMockFlights of server.js
\* build them
ServerFlights ==
  {[id |-> "FL1", price |-> 3000, duration |-> 90, stops |-> 0, departureTime |-> "09:30"],
   [id |-> "FL2", price |-> 9000, duration |-> 60, stops |-> 0, departureTime |-> "05:00"],
   [id |-> "FL3", price |-> 3000, duration |-> 80, stops |-> 0, departureTime |-> "13:45"],
   [id |-> "FL4", price |-> 2500, duration |-> 50, stops |-> 1, departureTime |-> "07:00"],
   [id |-> "FL5", price |-> 12000, duration |-> 300, stops |-> 2, departureTime |-> "23:15"],
   [id |-> "FL6", price |-> 4000, duration |-> 120, stops |-> 1, departureTime |-> "18:00"]}

\* one entry of the array rankFlights returns: { ...flight, category,
\* reason }, the flight being <<>> when the spread value is undefined
Entry(category, flight) == [category |-> category, flight |-> flight]

\* rankFlights returning one entry for each flight picked: an entry whose
\* flight an earlier entry already holds is left out
serverRankFlightsMerged(flights) ==
  LET first(xs)     == IF Len(xs) = 0 THEN <<>> ELSE <<xs[1]>>
      hour(f)       == parseInt(Slice(f.departureTime, 1, IndexOf(f.departureTime, ":") - 1))
      abs(n)        == IF n < 0 THEN -n ELSE n
      nonstop(f)    == f.stops = 0
      direct        == SelectSeq(flights, nonstop)
      cheapest      == first(sort(flights, [i \in 1..Len(flights) |-> flights[i].price]))
      shortest      == first(sort(flights, [i \in 1..Len(flights) |-> flights[i].duration]))
      best          == first(sort(direct, [i \in 1..Len(direct) |->
                                 abs(hour(direct[i]) - 9) + abs(hour(direct[i]) - 18)]))
      mostConvenient == IF best # <<>> THEN best ELSE first(flights)
  IN << Entry("Cheapest Price", cheapest) >>
     \o (IF shortest = cheapest THEN <<>> ELSE << Entry("Shortest Duration", shortest) >>)
     \o (IF mostConvenient \in {cheapest, shortest} THEN <<>>
         ELSE << Entry("Most Convenient", mostConvenient) >>)

\* server.js rankFlights
serverRankFlights(flights) ==
  LET first(xs)     == IF Len(xs) = 0 THEN <<>> ELSE <<xs[1]>>
      hour(f)       == parseInt(Slice(f.departureTime, 1, IndexOf(f.departureTime, ":") - 1))
      abs(n)        == IF n < 0 THEN -n ELSE n
      nonstop(f)    == f.stops = 0
      direct        == SelectSeq(flights, nonstop)
      cheapest      == first(sort(flights, [i \in 1..Len(flights) |-> flights[i].price]))
      shortest      == first(sort(flights, [i \in 1..Len(flights) |-> flights[i].duration]))
      best          == first(sort(direct, [i \in 1..Len(direct) |->
                                 abs(hour(direct[i]) - 9) + abs(hour(direct[i]) - 18)]))
      mostConvenient == IF best # <<>> THEN best ELSE first(flights)
  IN << Entry("Cheapest Price", cheapest),
        Entry("Shortest Duration", shortest),
        Entry("Most Convenient", mostConvenient) >>

\* flight offers as the Amadeus API returns them, which is the shape
\* RankingService reads: price.total, itineraries[0].duration, the number
\* of itineraries[0].segments, segments[0].departure.at and
\* validatingAirlineCodes[0]
AmadeusOffers ==
  {[id |-> "1", total |-> "3000.00", duration |-> "PT1H30M", segments |-> 1,
    at |-> "2025-12-11T09:30:00", carrier |-> "6E"],
   [id |-> "2", total |-> "9000.00", duration |-> "PT1H", segments |-> 1,
    at |-> "2025-12-11T05:00:00", carrier |-> "AI"],
   [id |-> "3", total |-> "3100.00", duration |-> "PT1H30M", segments |-> 1,
    at |-> "2025-12-11T08:45:00", carrier |-> "6E"],
   [id |-> "4", total |-> "2500.00", duration |-> "PT50M", segments |-> 2,
    at |-> "2025-12-11T07:00:00", carrier |-> "G8"],
   [id |-> "5", total |-> "12000.00", duration |-> "PT5H", segments |-> 3,
    at |-> "2025-12-11T23:15:00", carrier |-> "QP"],
   [id |-> "6", total |-> "4000.00", duration |-> "PT2H", segments |-> 2,
    at |-> "2025-12-11T18:00:00", carrier |-> "UK"]}

\* parseFloat of a decimal string whose fraction, if any, is zero
parseFloat(s) == parseInt(Slice(s, 1, LeadingDigits(s)))

\* RankingService._parseDurationToMinutes: /PT(?:(\d+)H)?(?:(\d+)M)?/
_parseDurationToMinutes(duration) ==
  LET at == IndexOf(duration, "PT")
  IN IF at = 0 THEN 0
     ELSE LET rest    == Slice(duration, at + 2, Len(duration))
              n1      == LeadingDigits(rest)
              after1  == Slice(rest, n1 + 1, Len(rest))
              hasH    == n1 > 0 /\ Len(after1) > 0 /\ CharAt(after1, 1) = "H"
              hours   == IF hasH THEN parseInt(Slice(rest, 1, n1)) ELSE 0
              tail    == IF hasH THEN Slice(after1, 2, Len(after1)) ELSE rest
              n2      == LeadingDigits(tail)
              after2  == Slice(tail, n2 + 1, Len(tail))
              hasM    == n2 > 0 /\ Len(after2) > 0 /\ CharAt(after2, 1) = "M"
              minutes == IF hasM THEN parseInt(Slice(tail, 1, n2)) ELSE 0
          IN hours * 60 + minutes

\* RankingService._getDepartureTime followed by getHours(): the hour of
\* the local time segments[0].departure.at names
_getDepartureTime(flight) == parseInt(Slice(flight.at, 12, 13))

\* the number as it is, with no bound applied
noClamp(n, lo, hi) == n

\* a number kept between lo and hi: Math.max(lo, Math.min(hi, n))
clamp(n, lo, hi) == IF n < lo THEN lo ELSE IF n > hi THEN hi ELSE n

\* RankingService._calculatePriceScore, in units of 1/48000
_calculatePriceScore(flight) ==
  LET price == parseFloat(flight.total)
  IN IF price <= 0 THEN 0 ELSE clamp(50000 - price, 0, 48000)

\* RankingService._calculateDurationScore, in units of 1/420
_calculateDurationScore(flight) ==
  LET durationMinutes == _parseDurationToMinutes(flight.duration)
  IN IF durationMinutes <= 0 THEN 0 ELSE clamp(480 - durationMinutes, 0, 420)

\* RankingService._calculateConvenienceScore, in tenths
_calculateConvenienceScore(flight) ==
  LET hour == _getDepartureTime(flight)
  IN Min(10, 5 + (IF flight.segments = 1 THEN 3 ELSE IF flight.segments = 2 THEN 1 ELSE 0)
               + (IF hour >= 6 /\ hour <= 10 THEN 2
                  ELSE IF hour >= 17 /\ hour <= 21 THEN 1 ELSE 0))

\* RankingService._calculateReliabilityScore, in tenths
_calculateReliabilityScore(flight) ==
  Min(10, 5 + (IF flight.carrier \in {"AI", "6E", "SG", "9W", "UK"} THEN 3 ELSE 0)
            + (IF flight.segments = 1 THEN 2 ELSE 0))

\* RankingService._getAdjustedWeights, in hundredths
_getAdjustedWeights(preference) ==
  IF toLowerCase(preference) = "price"
  THEN [price |-> 70, duration |-> 20, convenience |-> 5, reliability |-> 5]
  ELSE IF toLowerCase(preference) = "time"
  THEN [price |-> 20, duration |-> 60, convenience |-> 15, reliability |-> 5]
  ELSE IF toLowerCase(preference) = "convenience"
  THEN [price |-> 20, duration |-> 20, convenience |-> 50, reliability |-> 10]
  ELSE [price |-> 40, duration |-> 30, convenience |-> 20, reliability |-> 10]

\* RankingService._calculateScore, in hundredths: Math.round(score * 100),
\* the weighted sum being brought to the common denominator 336000
_calculateScore(flight, preference) ==
  LET w == _getAdjustedWeights(preference)
      n == w.price * _calculatePriceScore(flight) * 7
             + w.duration * _calculateDurationScore(flight) * 800
             + (w.convenience * _calculateConvenienceScore(flight)
                  + w.reliability * _calculateReliabilityScore(flight)) * 33600
  IN (2 * n + 336000) \div 672000

\* RankingService._calculateRanking, with _getPriceRanking,
\* _getDurationRanking and _isMostConvenient
_calculateRanking(flight, allFlights) ==
  LET price     == parseFloat(flight.total)
      duration  == _parseDurationToMinutes(flight.duration)
      \* indexOf in the ascending list of the positive values, plus one
      place(v, all) == IF v > 0
                       THEN 1 + Cardinality({i \in 1..Len(allFlights) :
                                  LET u == all[i] IN u > 0 /\ u < v})
                       ELSE 0
      hour      == _getDepartureTime(flight)
      priceRank == place(price, [i \in 1..Len(allFlights) |-> parseFloat(allFlights[i].total)])
      durationRank ==
        place(duration, [i \in 1..Len(allFlights) |->
                           _parseDurationToMinutes(allFlights[i].duration)])
  IN [price |-> priceRank, duration |-> durationRank,
      direct |-> flight.segments = 1,
      cheapest |-> priceRank = 1, fastest |-> durationRank = 1,
      mostConvenient |-> flight.segments = 1 /\ hour >= 6 /\ hour <= 10]

\* RankingService.rankFlights: every flight with its score and ranking,
\* sorted by falling score, then numbered
rankingServiceRankFlights(flights, preference) ==
  CHOOSE ranked \in
    {[index \in 1..Len(rankedFlights) |->
        [flight |-> rankedFlights[index].flight, score |-> rankedFlights[index].score,
         ranking |-> rankedFlights[index].ranking,
         rank |-> index, isTopChoice |-> index <= 3]] :
       rankedFlights \in
         {sort(scoredFlights, [i \in 1..Len(scoredFlights) |-> 0 - scoredFlights[i].score]) :
            scoredFlights \in
              {[i \in 1..Len(flights) |->
                  [flight |-> flights[i],
                   score |-> _calculateScore(flights[i], preference),
                   ranking |-> _calculateRanking(flights[i], flights)]]}}} : TRUE

-----------------------------------------------------------------------------
(* Contexts: the JSON object the client echoes.  keys are the properties  *)
(* the object has; a property it lacks reads as undefined, held as NULL.  *)

Blank ==
  [keys |-> {}, step |-> NULL, origin |-> NULL, destination |-> NULL, date |-> NULL,
   preference |-> NULL, inferredDate |-> NULL, originalInput |-> NULL,
   alternatives |-> <<>>, flights |-> <<>>]

SlotKeys == {"step", "origin", "destination", "date", "preference"}

\* { step: 'collecting', origin: null, destination: null, date: null, preference: null }
Collecting0 == [Blank EXCEPT !.keys = SlotKeys, !.step = "collecting"]

\* { step: 'initial' }
InitialOnly == [Blank EXCEPT !.keys = {"step"}, !.step = "initial"]

\* { step: 'initial', origin: null, destination: null, date: null, preference: null }
Initial0 == [Blank EXCEPT !.keys = SlotKeys, !.step = "initial"]

\* { ...context, step: s }
WithStep(c, s) == [c EXCEPT !.keys = @ \cup {"step"}, !.step = s]

\* the context without the confirmation properties (set to undefined, so
\* res.json leaves them out)
WithoutConfirmation(c) ==
  [c EXCEPT !.keys = @ \ {"inferredDate", "originalInput", "alternatives"},
            !.inferredDate = NULL, !.originalInput = NULL, !.alternatives = <<>>]

\* the day the sessions of the model take place
Today == <<2025, 12, 10>>

\* server.js generateAlternativeDates: the lines of the text it returns
generateAlternativeDates(inferredDate, today) ==
  LET date      == MomentParse(inferredDate, NoDate)
      nextMonth == AddMonths(date, 1)
      nextYear  == AddMonths(date, 12)
      dayBefore == AddDays(date, 0 - 1)
      dayAfter  == AddDays(date, 1)
  IN <<FormatDMY(nextMonth) \o " (next month)", FormatDMY(nextYear) \o " (next year)">>
     \o (IF IsAfterDay(dayBefore, today) THEN <<FormatDMY(dayBefore) \o " (day before)">> ELSE <<>>)
     \o <<FormatDMY(dayAfter) \o " (day after)">>

\* Array.from(new Set(xs)): xs without the later copies of an element
RECURSIVE Unique(_)
Unique(xs) ==
  IF Len(xs) = 0 THEN <<>>
  ELSE LET init == Unique(SubSeq(xs, 1, Len(xs) - 1))
           x    == xs[Len(xs)]
       IN IF \E i \in 1..Len(init) : init[i] = x THEN init ELSE Append(init, x)

\* server.js generateAlternativeOptions
generateAlternativeOptions(inferredDate, today) ==
  LET date      == MomentParse(inferredDate, NoDate)
      nextMonth == AddMonths(date, 1)
      nextYear  == AddMonths(date, 12)
      dayBefore == AddDays(date, 0 - 1)
      dayAfter  == AddDays(date, 1)
      options   == <<"Yes", "No", FormatDMY(nextMonth), FormatDMY(nextYear)>>
                   \o (IF IsAfterDay(dayBefore, today) THEN <<FormatDMY(dayBefore)>> ELSE <<>>)
                   \o <<FormatDMY(dayAfter)>>
  IN SubSeq(Unique(options), 1, Min(Len(Unique(options)), 6))

\* DateUtils.generateAlternativeOptions
dateUtilsGenerateAlternativeOptions(dateString, today) ==
  IF dateString = NULL \/ ParseISOStrict(dateString, today) = NoDate THEN <<>>
  ELSE LET baseDate  == ParseISOStrict(dateString, today)
           nextMonth == AddMonths(baseDate, 1)
           nextYear  == AddMonths(baseDate, 12)
           dayBefore == AddDays(baseDate, 0 - 1)
           dayAfter  == AddDays(baseDate, 1)
           options   == <<"Yes", "No", FormatDMY(nextMonth), FormatDMY(nextYear)>>
                        \o (IF IsAfterDay(dayBefore, today) THEN <<FormatDMY(dayBefore)>> ELSE <<>>)
                        \o <<FormatDMY(dayAfter)>>
       IN SubSeq(Unique(options), 1, Min(Len(Unique(options)), 6))

-----------------------------------------------------------------------------
(* Messages and what the handlers read from them *)

\* what users type, phrase by phrase
Phrases ==
  {"Mumbai", "del", "Mumbai to", "del tomorrow", "tomorrow", "25", "25 ",
   "yes", "no", "cheap", "search again"}

\* the largest number of phrases in a message
MaxPhrases == 2

\* the messages: one to MaxPhrases phrases, a space between two
Messages == {Join(ps) : ps \in UNION {[1..k -> Phrases] : k \in 1..MaxPhrases}}

\* server.js /api/chat, the preference step: the first of price, time,
\* convenience that the message names, by itself or by a synonym
preferenceSynonyms == <<
  <<"price", {"price", "cheap", "budget", "cost"}>>,
  <<"time", {"time", "fast", "quick", "speed"}>>,
  <<"convenience", {"convenience", "comfort", "easy", "direct"}>> >>

prefMatch(lowerMessage) ==
  LET hits == {i \in 1..Len(preferenceSynonyms) :
                 \E t \in preferenceSynonyms[i][2] : Includes(lowerMessage, t)}
  IN IF hits = {} THEN NULL
     ELSE preferenceSynonyms[CHOOSE i \in hits : \A j \in hits : i <= j][1]

\* server.js /api/chat, the confirmation step: the words taken as yes and as no
affirmative(lowerMessage) ==
  \E t \in {"yes", "correct", "right", "confirm"} : Includes(lowerMessage, t)

negative(lowerMessage) ==
  \E t \in {"no", "wrong", "incorrect"} : Includes(lowerMessage, t)

\* the dates validateDate may return for a text, one for each thing
\* new Date may make of it
validDates(text) == {validateDate(text, Today, lg) : lg \in LegacyOutcomes(text)}

\* What server.js /api/chat reads from message m on its single-line path:
\* the pattern's groups, validated.  A city is held as the answer for each
\* state of the city service.
ServerSingle(m) ==
  UNION {IF p.matched
         THEN {[matched     |-> TRUE,
                origin      |-> [up \in BOOLEAN |-> validateCityCode(p.origin, up)],
                destination |-> [up \in BOOLEAN |-> validateCityCode(p.destination, up)],
                date        |-> validDate,
                preference  |-> p.preference] : validDate \in validDates(p.date)}
         ELSE {[matched |-> FALSE]} :
           p \in {parseSingleLineFlightRequest(m)}}

\* What server.js /api/chat reads from message m: the result of every
\* function of the message the handler calls
ServerInput(m) ==
  {[missing |-> FALSE,
    single  |-> single,
    city    |-> [up \in BOOLEAN |-> findCityMatch(m, up)],
    date    |-> validDate,
    dayOnly |-> viaPartialDate(m),
    partial |-> isPartialDateInput(m),
    originalInput |-> IF isPartialDateInput(m) THEN m ELSE NULL,
    yes     |-> affirmative(toLowerCase(m)),
    no      |-> negative(toLowerCase(m)),
    pref    |-> prefMatch(toLowerCase(m))] :
     single \in ServerSingle(m), validDate \in validDates(m)}

\* a request whose body has no message
NoMessage == [missing |-> TRUE]

ServerInputs == UNION {ServerInput(m) : m \in Messages} \cup {NoMessage}

-----------------------------------------------------------------------------
(* server.js: POST /api/chat *)

\* What one request comes to: the context of the response, the branch that
\* answered, the arguments of the flight search made (<<>> if none), what
\* the flight source did, the offer list handed to the ranking (<<>> if
\* none) and the actions offered.
Reply(path, c, search, handed, actions) ==
  [answered |-> TRUE, path |-> path, ctx |-> c,
   search |-> search, outcome |-> "none", handed |-> handed, actions |-> actions]

\* A request that gets no response: the handler's catch block reads
\* message and context, which are declared inside the try block, so the
\* ReferenceError leaves the request unanswered and the client's context
\* as it was.
Unanswered(c) ==
  [answered |-> FALSE, path |-> "unanswered", ctx |-> c,
   search |-> <<>>, outcome |-> "none", handed |-> <<>>, actions |-> <<>>]

initialActions == <<"Search flights", "Delhi to Mumbai", "Bangalore to Chennai", "Mumbai to Goa">>

suggestions == <<"Delhi", "Mumbai", "Bangalore", "Chennai", "Hyderabad", "Kolkata">>

preferenceActions == <<"Cheapest", "Fastest", "Best Schedule">>

completeActions ==
  <<"Book Flight 1", "Book Flight 2", "Book Flight 3", "Search again", "Change dates">>

\* { step: 'complete', flights: topFlights }
ServerComplete(topFlights) ==
  [Blank EXCEPT !.keys = {"step", "flights"}, !.step = "complete", !.flights = topFlights]

\* the search and ranking of one turn, for every way the flight source may
\* answer: searchFlightsWithAmadeus, then rankFlights, then the response
ServerSearch(path, origin, destination, date, actions) ==
  {LET flights == searchFlightsWithAmadeus(a[1], a[2], numFlights)
   IN [Reply(path, ServerComplete(rankFlights(flights)),
             <<origin, destination, date>>, <<flights>>, actions) EXCEPT !.outcome = a[1]] :
     a \in FlightAnswers, numFlights \in MockCounts}

\* lines 524-588: the message matched a single-line pattern
ServerSingleLine(inp) ==
  UNION {LET validOrigin      == inp.single.origin[up1]
             validDestination == inp.single.destination[up2]
             validDate        == inp.single.date
         IN IF validOrigin = NULL THEN {Reply("single_origin", Collecting0, <<>>, <<>>, <<>>)}
            ELSE IF validDestination = NULL
                 THEN {Reply("single_destination", Collecting0, <<>>, <<>>, <<>>)}
            ELSE IF validDate = NULL THEN {Reply("single_date", Collecting0, <<>>, <<>>, <<>>)}
            ELSE ServerSearch("single_complete", validOrigin, validDestination, validDate, <<>>) :
           up1 \in BOOLEAN, up2 \in BOOLEAN}

\* lines 591-647: a context whose step is 'search'.  validateDate and
\* validatePreference call toLowerCase on their argument, so a null date or
\* preference throws before any check is made.
ServerSearchStep(c) ==
  IF c.date = NULL \/ c.preference = NULL THEN {Unanswered(c)}
  ELSE
    UNION {LET validOrigin      == validateCityCode(c.origin, up1)
               validDestination == validateCityCode(c.destination, up2)
               validDate        == validateDate(c.date, Today, NoDate)
           IN IF validOrigin = NULL \/ validDestination = NULL \/ validDate = NULL
                 \/ ~validatePreference(c.preference)
              THEN {Reply("search_missing", WithStep(c, "search"), <<>>, <<>>, <<>>)}
              ELSE ServerSearch("search_complete", validOrigin, validDestination, validDate, <<>>) :
             up1 \in BOOLEAN, up2 \in BOOLEAN}

\* lines 668-686: no origin yet
ServerOrigin(c, inp) ==
  {LET originMatch == inp.city[up]
   IN IF originMatch # NULL
      THEN Reply("origin_set",
                 [WithStep(c, "collecting") EXCEPT !.keys = @ \cup {"origin"}, !.origin = originMatch],
                 <<>>, <<>>, <<>>)
      ELSE Reply("origin_unknown", WithStep(c, "collecting"), <<>>, <<>>, suggestions) :
     up \in BOOLEAN}

\* the destination collection without its comparison with the origin
ServerDestinationAccepting(c, inp) ==
  {LET destMatch == inp.city[up]
   IN IF destMatch # NULL
      THEN Reply("destination_set",
                 [WithStep(c, "collecting") EXCEPT !.keys = @ \cup {"destination"},
                                                   !.destination = destMatch],
                 <<>>, <<>>, <<>>)
      ELSE Reply("destination_unknown", WithStep(c, "collecting"), <<>>, <<>>, suggestions) :
     up \in BOOLEAN}

\* lines 688-712: no destination yet
ServerDestination(c, inp) ==
  {LET destMatch == inp.city[up]
   IN IF destMatch # NULL /\ destMatch # c.origin
      THEN Reply("destination_set",
                 [WithStep(c, "collecting") EXCEPT !.keys = @ \cup {"destination"},
                                                   !.destination = destMatch],
                 <<>>, <<>>, <<>>)
      ELSE IF destMatch # NULL /\ destMatch = c.origin
           THEN Reply("destination_same", WithStep(c, "collecting"), <<>>, <<>>, <<>>)
      ELSE Reply("destination_unknown", WithStep(c, "collecting"), <<>>, <<>>, suggestions) :
     up \in BOOLEAN}

\* lines 714-748: no date yet
ServerDate(c, inp) ==
  LET validDate == inp.date
      isInferredDate == inp.partial
  IN IF validDate # NULL
     THEN IF isInferredDate
          THEN {Reply("date_inferred",
                      [c EXCEPT !.keys = @ \cup {"inferredDate", "originalInput", "step", "alternatives"},
                                !.inferredDate = validDate,
                                !.originalInput = inp.originalInput,
                                !.step = "date_confirmation",
                                !.alternatives = generateAlternativeDates(validDate, Today)],
                      <<>>, <<>>, generateAlternativeOptions(validDate, Today))}
          ELSE {Reply("date_set",
                      [WithStep(c, "collecting") EXCEPT !.keys = @ \cup {"date"}, !.date = validDate],
                      <<>>, <<>>, <<>>)}
     ELSE {Reply("date_unknown", WithStep(c, "collecting"), <<>>, <<>>, <<>>)}

\* lines 750-802: the confirmation of an inferred date
ServerConfirmation(c, inp) ==
  IF inp.yes
  THEN {Reply("confirmed",
              [WithoutConfirmation(WithStep(c, "collecting")) EXCEPT
                 !.keys = @ \cup {"date"}, !.date = c.inferredDate],
              <<>>, <<>>, <<>>)}
  ELSE IF inp.no
  THEN {Reply("rejected", WithoutConfirmation(WithStep(c, "collecting")), <<>>, <<>>, <<>>)}
  ELSE IF inp.date # NULL
  THEN {Reply("replaced",
              [WithoutConfirmation(WithStep(c, "collecting")) EXCEPT
                 !.keys = @ \cup {"date"}, !.date = inp.date],
              <<>>, <<>>, <<>>)}
  ELSE {Reply("confirmation_unknown", WithStep(c, "date_confirmation"), <<>>, <<>>,
              IF c.inferredDate # NULL THEN generateAlternativeOptions(c.inferredDate, Today)
              ELSE <<"Tomorrow", "Next Monday">>)}

\* lines 804-877: no preference yet.  validateCityCode is called without
\* await: the promises it returns pass the checks and have no code, so the
\* search is made with undefined origin and destination codes.
ServerPreference(c, inp) ==
  IF inp.pref # NULL
  THEN LET validDate == validateDate(c.date, Today, NoDate)
       IN IF validDate = NULL \/ ~validatePreference(inp.pref)
          THEN {Reply("preference_restart", Collecting0, <<>>, <<>>, <<>>)}
          ELSE ServerSearch("preference_complete", "undefined", "undefined", validDate,
                            completeActions)
  ELSE {Reply("preference_unknown", WithStep(c, "collecting"), <<>>, <<>>, preferenceActions)}

\* the handler with the single-line path tried after the collecting steps
\* instead of before them
ServerChatStepsFirst(c, inp) ==
  IF inp.missing THEN {Unanswered(c)}
  ELSE IF c.step = "search" THEN ServerSearchStep(c)
  ELSE IF c.step = "initial" /\ ~inp.single.matched
       THEN {Reply("initial", Collecting0, <<>>, <<>>, initialActions)}
  ELSE IF c.step = "collecting" /\ c.origin = NULL THEN ServerOrigin(c, inp)
  ELSE IF c.step = "collecting" /\ c.destination = NULL THEN ServerDestination(c, inp)
  ELSE IF c.step = "collecting" /\ c.date = NULL THEN ServerDate(c, inp)
  ELSE IF c.step = "collecting" /\ c.preference = NULL THEN ServerPreference(c, inp)
  ELSE IF inp.single.matched THEN ServerSingleLine(inp)
  ELSE {Reply("default", InitialOnly, <<>>, <<>>, <<>>)}

\* the handler with a default response that keeps the fields of the
\* context it was given and only resets the step
ServerChatKeepsContext(c, inp) ==
  IF inp.missing THEN {Unanswered(c)}
  ELSE IF inp.single.matched THEN ServerSingleLine(inp)
  ELSE IF c.step = "search" THEN ServerSearchStep(c)
  ELSE IF c.step = "initial" THEN {Reply("initial", Collecting0, <<>>, <<>>, initialActions)}
  ELSE IF c.step = "collecting" /\ c.origin = NULL THEN ServerOrigin(c, inp)
  ELSE IF c.step = "collecting" /\ c.destination = NULL THEN ServerDestination(c, inp)
  ELSE IF c.step = "collecting" /\ c.date = NULL THEN ServerDate(c, inp)
  ELSE IF c.step = "collecting" /\ c.step = "date_confirmation" THEN ServerConfirmation(c, inp)
  ELSE IF c.step = "collecting" /\ c.preference = NULL THEN ServerPreference(c, inp)
  ELSE {Reply("default", WithStep(c, "initial"), <<>>, <<>>, <<>>)}

\* lines 514-901: the responses the handler may give to a message read as
\* inp in context c
ServerChat(c, inp) ==
  IF inp.missing THEN {Unanswered(c)}
  ELSE IF inp.single.matched THEN ServerSingleLine(inp)
  ELSE IF c.step = "search" THEN ServerSearchStep(c)
  ELSE IF c.step = "initial" THEN {Reply("initial", Collecting0, <<>>, <<>>, initialActions)}
  ELSE IF c.step = "collecting" /\ c.origin = NULL THEN ServerOrigin(c, inp)
  ELSE IF c.step = "collecting" /\ c.destination = NULL THEN ServerDestination(c, inp)
  ELSE IF c.step = "collecting" /\ c.date = NULL THEN ServerDate(c, inp)
  ELSE IF c.step = "collecting" /\ c.step = "date_confirmation" THEN ServerConfirmation(c, inp)
  ELSE IF c.step = "collecting" /\ c.preference = NULL THEN ServerPreference(c, inp)
  ELSE {Reply("default", InitialOnly, <<>>, <<>>, <<>>)}

-----------------------------------------------------------------------------
(* routes/chat.js: POST /api/chat of the backend *)

\* What routes/chat.js reads from message m: the result of every function
\* of the message the handler calls
ChatSingle(m) ==
  UNION {IF p.matched
         THEN {[matched     |-> TRUE,
                origin      |-> CityReading(p.origin),
                destination |-> CityReading(p.destination),
                date        |-> validDate,
                future      |-> isValidFutureDate(validDate, Today),
                preference  |-> p.preference] : validDate \in {parseDate(p.date, Today)}}
         ELSE {[matched |-> FALSE]} :
           p \in {chatParseSingleLineFlightRequest(m)}}

\* the preference step of routes/chat.js: price, time or convenience, by
\* the words it looks for, or null
chatPreference(lowerMessage) ==
  IF \E t \in {"price", "cheap", "budget"} : Includes(lowerMessage, t) THEN "price"
  ELSE IF \E t \in {"time", "fast", "quick"} : Includes(lowerMessage, t) THEN "time"
  ELSE IF \E t \in {"convenience", "comfort", "direct"} : Includes(lowerMessage, t)
       THEN "convenience"
  ELSE NULL

ChatInput(m) ==
  {[missing |-> FALSE,
    single  |-> single,
    date    |-> validDate,
    future  |-> isValidFutureDate(validDate, Today),
    pref    |-> chatPreference(toLowerCase(m))] :
     single \in ChatSingle(m), validDate \in {parseDate(m, Today)}}

ChatInputs == UNION {ChatInput(m) : m \in Messages} \cup {NoMessage}

\* a response of the backend and the city cache it leaves behind
ChatReply(r, c) == [reply |-> r, cache |-> c]

dateActions == <<"Tomorrow", "Next Monday", "25 Dec 2025", "Next Week">>

\* the catch block of the route
ChatError(search, handed) == Reply("error", Collecting0, search, handed, <<>>)

\* { step: 'complete', origin, destination, date, preference, flights };
\* origin and destination are the validated city objects, each stood for
\* by its code
ChatComplete(origin, destination, date, preference, rankedFlights) ==
  [Blank EXCEPT !.keys = SlotKeys \cup {"flights"}, !.step = "complete",
                !.origin = origin, !.destination = destination, !.date = date,
                !.preference = preference, !.flights = rankedFlights]

\* what the collaborators of the route answer during one turn: whether
\* the city service answers each of the two validateCity calls, whether
\* an entry the call finds in the cache is younger than cacheTimeout, and
\* what the flight source answers
CityAnswers == [up1 : BOOLEAN, fresh1 : BOOLEAN, up2 : BOOLEAN, fresh2 : BOOLEAN]

ChatAnswers ==
  [up1 : BOOLEAN, fresh1 : BOOLEAN, up2 : BOOLEAN, fresh2 : BOOLEAN,
   flights : FlightAnswers]

\* searchFlights, rankingService.rankFlights and the response of one turn
\* in which the flight source answers a
ChatSearchOn(path, origin, destination, date, preference, a) ==
  LET flights == searchFlights(a[1], a[2])
      search  == <<origin, destination, date>>
      ranking == rankingRankFlights(flights)
      reply   == IF flights.threw THEN ChatError(search, <<>>)
                 ELSE IF ranking.threw THEN ChatError(search, <<flights>>)
                 ELSE Reply(path,
                            ChatComplete(origin, destination, date, preference, ranking.ranked),
                            search, <<flights>>, completeActions)
  IN [reply EXCEPT !.outcome = a[1]]

\* the same for every way the flight source may answer
ChatSearch(path, origin, destination, date, preference) ==
  {ChatSearchOn(path, origin, destination, date, preference, a) : a \in FlightAnswers}

\* the two validateCity calls of a Promise.all: each finds what the other
\* would have cached, so their order does not show
ValidateBothOn(first, second, c, e) ==
  LET one == validateCity(first, c, e.up1, e.fresh1)
      two == validateCity(second, one.cache, e.up2, e.fresh2)
  IN [validOrigin |-> one.data, validDestination |-> two.data, cache |-> two.cache]

ValidateBoth(first, second, c) ==
  {ValidateBothOn(first, second, c, e) : e \in CityAnswers}

\* lines 36-87: the message matched a single-line pattern
ChatSingleLineOn(inp, c, e) ==
  LET v == ValidateBothOn(inp.single.origin, inp.single.destination, c, e)
      reply ==
        IF v.validOrigin = NULL
        THEN Reply("single_origin", Collecting0, <<>>, <<>>, suggestions)
        ELSE IF v.validDestination = NULL
        THEN Reply("single_destination", Collecting0, <<>>, <<>>, suggestions)
        ELSE IF inp.single.date = NULL \/ ~inp.single.future
        THEN Reply("single_date", Collecting0, <<>>, <<>>, dateActions)
        ELSE ChatSearchOn("single_complete", v.validOrigin, v.validDestination,
                          inp.single.date, inp.single.preference, e.flights)
  IN ChatReply(reply, v.cache)

ChatSingleLine(inp, c) == {ChatSingleLineOn(inp, c, e) : e \in ChatAnswers}

\* lines 144-184: no preference yet
ChatPreferenceOn(x, inp, c, e) ==
  IF inp.pref = NULL
  THEN ChatReply(Reply("preference_unknown", WithStep(x, "collecting"), <<>>, <<>>,
                       preferenceActions), c)
  ELSE LET v == ValidateBothOn(CityReading(x.origin), CityReading(x.destination), c, e)
           reply ==
             \* validOrigin.code of a null validOrigin throws
             IF v.validOrigin = NULL \/ v.validDestination = NULL
             THEN ChatError(<<>>, <<>>)
             ELSE ChatSearchOn("preference_complete", v.validOrigin, v.validDestination,
                               x.date, inp.pref, e.flights)
       IN ChatReply(reply, v.cache)

ChatPreference(x, inp, c) == {ChatPreferenceOn(x, inp, c, e) : e \in ChatAnswers}

\* lines 126-142: no date yet
ChatDate(x, inp) ==
  IF inp.date # NULL /\ inp.future
  THEN Reply("date_set",
             [WithStep(x, "collecting") EXCEPT !.keys = @ \cup {"date"}, !.date = inp.date],
             <<>>, <<>>, preferenceActions)
  ELSE Reply("date_unknown", WithStep(x, "collecting"), <<>>, <<>>, dateActions)

\* lines 20-206: the response the route gives to a message read as inp in
\* context x, with city cache c, when its collaborators answer e.  The
\* origin and destination steps call cityValidation.findCityMatch, which
\* CityValidationService does not have: the call throws and the catch
\* block answers.
ChatChatOn(x, inp, c, e) ==
  IF inp.missing THEN ChatReply(Reply("no_message", Initial0, <<>>, <<>>, <<>>), c)
  ELSE IF inp.single.matched THEN ChatSingleLineOn(inp, c, e)
  ELSE IF x.step = "initial"
       THEN ChatReply(Reply("initial", Collecting0, <<>>, <<>>, initialActions), c)
  ELSE IF x.step = "collecting" /\ x.origin = NULL THEN ChatReply(ChatError(<<>>, <<>>), c)
  ELSE IF x.step = "collecting" /\ x.destination = NULL THEN ChatReply(ChatError(<<>>, <<>>), c)
  ELSE IF x.step = "collecting" /\ x.date = NULL THEN ChatReply(ChatDate(x, inp), c)
  ELSE IF x.step = "collecting" /\ x.preference = NULL THEN ChatPreferenceOn(x, inp, c, e)
  ELSE ChatReply(Reply("default", Initial0, <<>>, <<>>, initialActions), c)

\* the responses the route may give, for every way its collaborators may
\* answer
ChatChat(x, inp, c) == {ChatChatOn(x, inp, c, e) : e \in ChatAnswers}

-----------------------------------------------------------------------------
(* The sessions *)

Routes == {"server", "chat"}

\* what the session keeps of a response: the reply and the context the
\* request carried
Answer(c, r) ==
  [in |-> c, answered |-> r.answered, path |-> r.path, search |-> r.search,
   outcome |-> r.outcome, handed |-> r.handed, actions |-> r.actions]

\* before the first response and while a request is in flight
NoResponse == Answer(Blank, Reply("none", Blank, <<>>, <<>>, <<>>))

\* demo.js: the client starts from { step: 'initial' } with nothing sent;
\* the backend's city cache is empty
Init ==
  /\ route \in Routes
  /\ ctx = InitialOnly
  /\ request = <<>>
  /\ response = NoResponse
  /\ cache = <<>>
  /\ offers = <<>>
  /\ wanted = "price"
  /\ results = <<>>
  /\ now = Today
  /\ typed = ""
  /\ resolved = <<>>

\* demo.js sendMessage: the client posts a message with the context it holds
Post ==
  /\ request = <<>>
  /\ \E inp \in (IF route = "server" THEN ServerInputs ELSE ChatInputs) :
       request' = <<inp>>
  /\ response' = NoResponse
  /\ UNCHANGED <<route, ctx, cache, offers, wanted, results, now, typed, resolved>>

\* server.js answers the request in flight and the client keeps the
\* context of the response
ServerHandle ==
  /\ route = "server"
  /\ request # <<>>
  /\ \E r \in ServerChat(ctx, request[1]) :
       /\ ctx' = r.ctx
       /\ response' = Answer(ctx, r)
  /\ request' = <<>>
  /\ UNCHANGED <<route, cache, offers, wanted, results, now, typed, resolved>>

\* the backend route answers the request in flight and the client keeps
\* the context of the response
ChatHandle ==
  /\ route = "chat"
  /\ request # <<>>
  /\ \E r \in ChatChat(ctx, request[1], cache) :
       /\ ctx' = r.reply.ctx
       /\ response' = Answer(ctx, r.reply)
       /\ cache' = r.cache
  /\ request' = <<>>
  /\ UNCHANGED <<route, offers, wanted, results, now, typed, resolved>>

Next == Post \/ ServerHandle \/ ChatHandle

Spec == Init /\ [][Next]_vars

-----------------------------------------------------------------------------
(* The ranking by itself: a flight list and a preference are given, and   *)
(* the ranking function of either program is called on them.             *)

\* the largest number of calls made on one list
MaxCalls == 2

\* the lists of up to MaxFlights different flights of a pool
FlightLists(pool) ==
  UNION {{xs \in [1..k -> pool] : \A i, j \in 1..k : i # j => xs[i] # xs[j]} :
           k \in 0..MaxFlights}

\* the preferences the handlers pass
Preferences == {"price", "time", "convenience"}

RankInit ==
  /\ route \in Routes
  /\ offers \in FlightLists(IF route = "server" THEN ServerFlights ELSE AmadeusOffers)
  /\ wanted \in Preferences
  /\ results = <<>>
  /\ ctx = InitialOnly
  /\ request = <<>>
  /\ response = NoResponse
  /\ cache = <<>>
  /\ now = Today
  /\ typed = ""
  /\ resolved = <<>>

\* rankFlights with its sorts made on the list itself, flights.sort(...)
\* in place of [...flights].sort(...): the caller's list is left in order
\* of duration
ServerRankInPlace ==
  /\ route = "server"
  /\ Len(results) < MaxCalls
  /\ results' = Append(results, serverRankFlights(offers))
  /\ offers' = sort(sort(offers, [i \in 1..Len(offers) |-> offers[i].price]),
                    [i \in 1..Len(offers) |->
                       sort(offers, [j \in 1..Len(offers) |-> offers[j].price])[i].duration])
  /\ UNCHANGED <<route, ctx, request, response, cache, wanted, now, typed, resolved>>

\* server.js: const topFlights = rankFlights(flights); the sorts are made
\* on copies ([...flights]), so the list is left as it was
ServerRank ==
  /\ route = "server"
  /\ Len(results) < MaxCalls
  /\ results' = Append(results, serverRankFlights(offers))
  /\ UNCHANGED <<route, ctx, request, response, cache, offers, wanted, now, typed, resolved>>

\* the backend: rankingService.rankFlights(flights, preference); the sort
\* is made on the array flights.map returns, so the list is left as it was
BackendRank ==
  /\ route = "chat"
  /\ Len(results) < MaxCalls
  /\ results' = Append(results, rankingServiceRankFlights(offers, wanted))
  /\ UNCHANGED <<route, ctx, request, response, cache, offers, wanted, now, typed, resolved>>

RankNext == ServerRank \/ BackendRank

RankSpec == RankInit /\ [][RankNext]_vars

-----------------------------------------------------------------------------
(* The date parsers by themselves: a text is typed on some day, and the   *)
(* parser of either program reads it, then reads its own answer again.    *)

\* the largest number of parses made of one text, the first of the text
\* itself and each later one of the date the parse before it returned
MaxParses == 2

\* the days a text is read on: a whole week, Sunday 7 to Saturday 13
\* December 2025, and days at the end of a month and of a year
Days ==
  {<<2025, 12, d>> : d \in 7..13}
    \cup {<<2025, 12, 31>>, <<2025, 1, 29>>, <<2024, 1, 30>>, <<2025, 3, 31>>, <<2024, 2, 29>>}

\* the texts typed: the keywords, the weekday expressions, "in N ...",
\* every day of the month by itself, the day with a suffix or a zero,
\* dates written in the formats of the list, and texts that are no date
DateTexts ==
  {"today", "tomorrow", "day after tomorrow", "next week", "next month", "next year"}
    \cup {"next " \o daysOfWeek[i] : i \in 1..7}
    \cup {"this " \o daysOfWeek[i] : i \in 1..7}
    \cup {"in 0 days", "in 1 day", "in 3 days", "in 2 weeks", "in 1 month"}
    \cup {ToString(d) : d \in 1..31}
    \cup {"25th", "1st", "05", "0", "32"}
    \cup {"2025-12-10", "2025-12-25", "2025-12-09", "2026-01-05", "2024-02-29",
          "25/12/2025", "01/02/2026", "05/01/2026", "25-12-2025", "25.12.2025",
          "25 Dec 2025", "25 December 2025", "Dec 25, 2025", "25-12-25", "25 dec"}
    \cup {"", "soon"}

\* what a parse gave: the text read, the date returned (NULL for null),
\* whether the text counts as a partial date, and the options offered to
\* confirm an inferred date
Resolution(text, date, inferred, options) ==
  [text |-> text, date |-> date, inferred |-> inferred, options |-> options]

DateInit ==
  /\ route \in Routes
  /\ now \in Days
  /\ typed \in DateTexts
  /\ resolved = <<>>
  /\ ctx = InitialOnly
  /\ request = <<>>
  /\ response = NoResponse
  /\ cache = <<>>
  /\ offers = <<>>
  /\ wanted = "price"
  /\ results = <<>>

\* the text of the next parse
Reading == IF Len(resolved) = 0 THEN typed ELSE resolved[Len(resolved)].date

\* server.js, the date step: validateDate(message), and for a date taken
\* from a partial input the options of generateAlternativeOptions
ServerResolve ==
  /\ route = "server"
  /\ Len(resolved) < MaxParses
  /\ Reading # NULL
  /\ \E legacy \in LegacyOutcomes(Reading) :
       \E validDate \in {validateDate(Reading, now, legacy)} :
         \E isInferredDate \in {validDate # NULL /\ isPartialDateInput(Reading)} :
           resolved' = Append(resolved,
             Resolution(Reading, validDate, isInferredDate,
                        IF isInferredDate THEN generateAlternativeOptions(validDate, now)
                        ELSE <<>>))
  /\ UNCHANGED <<route, ctx, request, response, cache, offers, wanted, results, now, typed>>

\* the backend: DateUtils.parseDate, DateUtils.isPartialDateInput and
\* DateUtils.generateAlternativeOptions on the date returned
BackendResolve ==
  /\ route = "chat"
  /\ Len(resolved) < MaxParses
  /\ Reading # NULL
  /\ \E validDate \in {parseDate(Reading, now)} :
       resolved' = Append(resolved,
         Resolution(Reading, validDate, dateUtilsIsPartialDateInput(Reading),
                    dateUtilsGenerateAlternativeOptions(validDate, now)))
  /\ UNCHANGED <<route, ctx, request, response, cache, offers, wanted, results, now, typed>>

DateNext == ServerResolve \/ BackendResolve

DateSpec == DateInit /\ [][DateNext]_vars

-----------------------------------------------------------------------------
(* The scores by themselves: RankingService.rankFlights is called on one  *)
(* offer, with the preference given, left out or null.                     *)

\* JavaScript undefined, for an argument left out
UNDEFINED == "undefined"

\* the offers scored: every number of segments 1..3 with every departure
\* hour 0..23, prices and durations below, inside and above the ranges the
\* scores are scaled to, a major and another carrier
ScoreOffers ==
  {[id |-> "S", total |-> t, duration |-> d, segments |-> n,
    at |-> "2025-12-11T" \o Pad2(h) \o ":00:00", carrier |-> c] :
     t \in {"500.00", "3000.00", "60000.00"}, d \in {"PT30M", "PT2H", "PT9H"},
     n \in 1..3, h \in 0..23, c \in {"AI", "G8"}}

\* the preference argument: one of the three, a string that is none of
\* them, nothing, or null
GivenPreferences == Preferences \cup {"comfort", UNDEFINED, NULL}

\* what a call gave: the list returned, or a TypeError thrown
Ranked(all) == [threw |-> FALSE, all |-> all]

RankThrew == [threw |-> TRUE, all |-> <<>>]

\* rankingService.rankFlights(flights, preference): the default parameter
\* preference = 'price' stands in for an argument left out and for no
\* other; _getAdjustedWeights calls preference.toLowerCase(), which throws
\* on null
rankFlightsCall(flights, preference) ==
  LET given == IF preference = UNDEFINED THEN "price" ELSE preference
  IN IF Len(flights) = 0 THEN Ranked(<<>>)
     ELSE IF given = NULL THEN RankThrew
     ELSE Ranked(rankingServiceRankFlights(flights, given))

ScoreInit ==
  /\ route = "chat"
  /\ offers \in {<<o>> : o \in ScoreOffers}
  /\ wanted \in GivenPreferences
  /\ results = <<>>
  /\ ctx = InitialOnly
  /\ request = <<>>
  /\ response = NoResponse
  /\ cache = <<>>
  /\ now = Today
  /\ typed = ""
  /\ resolved = <<>>

ScoreRank ==
  /\ Len(results) = 0
  /\ results' = <<rankFlightsCall(offers, wanted)>>
  /\ UNCHANGED <<route, ctx, request, response, cache, offers, wanted, now, typed, resolved>>

ScoreSpec == ScoreInit /\ [][ScoreRank]_vars

-----------------------------------------------------------------------------
(* cityValidation.js: validateCity on a cache with timestamps *)

\* the calls of validateCity and the clock readings one behaviour makes
MaxLookups == 2

\* constructor, line 11: this.cacheTimeout, in milliseconds
cacheTimeout == 5 * 60 * 1000

\* an entry served up to and including the age cacheTimeout
withinTimeoutInclusive(at, timestamp) == at - timestamp <= cacheTimeout

\* line 29: Date.now() - cached.timestamp < this.cacheTimeout
withinTimeout(at, timestamp) == at - timestamp < cacheTimeout

\* lines 133-138: the cache after this.cache.set(cityName, {data, timestamp})
_cacheResult(c, cityName, result, at) ==
  (cityName :> [data |-> result, timestamp |-> at]) @@ c

\* lines 19-55: validateCity of a name read as city on cache c, with the
\* clock reading at when the cache is looked up and at + took when a
\* result is stored: the code returned (or null), whether it came from the
\* cache, and the cache the call leaves
validateCityAt(city, c, up, at, took) ==
  LET normalizedName == city.normalizedName
      has        == normalizedName \in DOMAIN c
      live       == has /\ withinTimeout(at, c[normalizedName].timestamp)
      afterCheck == IF has /\ ~live
                    THEN [n \in DOMAIN c \ {normalizedName} |-> c[n]]
                    ELSE c
      cityInfo   == city.api[up]
      localInfo  == city.local
  IN IF ~city.given THEN [data |-> NULL, cached |-> FALSE, cache |-> c]
     ELSE IF live
          THEN [data |-> c[normalizedName].data, cached |-> TRUE, cache |-> c]
     ELSE IF cityInfo # NULL
          THEN [data |-> cityInfo, cached |-> FALSE,
                cache |-> _cacheResult(afterCheck, normalizedName, cityInfo, at + took)]
     ELSE IF localInfo # NULL
          THEN [data |-> localInfo, cached |-> FALSE,
                cache |-> _cacheResult(afterCheck, normalizedName, localInfo, at + took)]
     ELSE [data |-> NULL, cached |-> FALSE, cache |-> afterCheck]

\* the names validateCity is called with
CityNames == {"delhi", "Mumbai ", "bombay", "new delhi", "a", " ", "xyz", ""}

\* the milliseconds between the lookup of the cache and the store
Latencies == {0, 1}

\* the milliseconds that pass between two calls
Elapses == {149999, 150000, 150001}

\* the last clock reading followed
MaxClock == 2 * 150001 + MaxLookups

\* one call of validateCity as the caller and the cache saw it: entry is
\* the cache entry the call looked up (line 28), if it looked one up
Lookup(n, name, city, up, at, c, out) ==
  [n |-> n, cityName |-> name, normalizedName |-> city.normalizedName,
   up |-> up, at |-> at,
   entry |-> IF city.given /\ city.normalizedName \in DOMAIN c
             THEN <<c[city.normalizedName]>> ELSE <<>>,
   data |-> out.data, cached |-> out.cached]

\* the calls of validateCity made so far
Lookups == IF resolved = <<>> THEN 0 ELSE resolved[1].n

CityInit ==
  /\ route = "chat"
  /\ cache = <<>>
  /\ now = 0
  /\ typed = ""
  /\ resolved = <<>>
  /\ ctx = InitialOnly
  /\ request = <<>>
  /\ response = NoResponse
  /\ offers = <<>>
  /\ wanted = "price"
  /\ results = <<>>

\* one call of validateCity on the shared cache
CityValidate ==
  /\ Lookups < MaxLookups
  /\ \E name \in CityNames, up \in BOOLEAN, took \in Latencies :
       \E city \in {CityReading(name)} :
         \E out \in {validateCityAt(city, cache, up, now, took)} :
           /\ typed' = name
           /\ cache' = out.cache
           /\ now' = now + took
           /\ resolved' = <<Lookup(Lookups + 1, name, city, up, now, cache, out)>>
  /\ UNCHANGED <<route, ctx, request, response, offers, wanted, results>>

\* time passes between two calls
Elapse ==
  /\ \E d \in Elapses :
       /\ now + d <= MaxClock
       /\ now' = now + d
  /\ UNCHANGED <<route, ctx, request, response, cache, offers, wanted, results,
                 typed, resolved>>

CityNext == CityValidate \/ Elapse

CitySpec == CityInit /\ [][CityNext]_vars

-----------------------------------------------------------------------------
(* routes/chat.js: two sessions on one process *)

\* the clients talking to the one backend process
Sessions == {"A", "B"}

\* the turns one behaviour follows
MaxTurns == 3

\* the messages the two clients send
PairMessages == {"bom del tomorrow", "Mumbai del tomorrow", "cheap", "tomorrow"}

PairInputs == UNION {ChatInput(m) : m \in PairMessages}

\* a session run on a process of its own: the context its client holds
\* and the city cache of that process
Alone(x, c) == [ctx |-> x, cache |-> c]

\* each client holds the initial context and every city cache is empty.
\* ctx holds the context of each session on the shared process, cache the
\* city cache of that process (cityValidation.js 8-12 and 159), results
\* the same turns of each session taken on a process of its own, now the
\* turns taken and typed the session that took the last one.
PairInit ==
  /\ route = "chat"
  /\ ctx = [s \in Sessions |-> InitialOnly]
  /\ cache = <<>>
  /\ results = [s \in Sessions |-> Alone(InitialOnly, <<>>)]
  /\ now = 0
  /\ typed = ""
  /\ request = <<>>
  /\ response = NoResponse
  /\ offers = <<>>
  /\ wanted = "price"
  /\ resolved = <<>>

\* one turn of session s: the route answers on the shared cache, and the
\* same message with the same answers of the collaborators is answered
\* for the session running alone
Turn(s) ==
  /\ now < MaxTurns
  /\ \E inp \in PairInputs, e \in ChatAnswers :
       \E shared \in {ChatChatOn(ctx[s], inp, cache, e)} :
         \E alone \in {ChatChatOn(results[s].ctx, inp, results[s].cache, e)} :
           /\ ctx' = [ctx EXCEPT ![s] = shared.reply.ctx]
           /\ cache' = shared.cache
           /\ response' = Answer(ctx[s], shared.reply)
           /\ results' = [results EXCEPT ![s] = Alone(alone.reply.ctx, alone.cache)]
  /\ now' = now + 1
  /\ typed' = s
  /\ UNCHANGED <<route, request, offers, wanted, resolved>>

PairNext == \E s \in Sessions : Turn(s)

PairSpec == PairInit /\ [][PairNext]_vars

-----------------------------------------------------------------------------
(* The contract of the conversation, checked against the two handlers *)

\* the request in flight is a message that server.js handles step by step
StepByStep ==
  /\ route = "server"
  /\ request # <<>>
  /\ ~request[1].missing
  /\ ~request[1].single.matched

\* the slot a collecting context is waiting for
Awaiting(c) ==
  IF c.step # "collecting" THEN "none"
  ELSE IF c.origin = NULL THEN "origin"
  ELSE IF c.destination = NULL THEN "destination"
  ELSE IF c.date = NULL THEN "date"
  ELSE IF c.preference = NULL THEN "preference"
  ELSE "none"

\* two contexts agree on the step and on the four slots
SameSlots(a, b) ==
  /\ a.step = b.step
  /\ a.origin = b.origin
  /\ a.destination = b.destination
  /\ a.date = b.date
  /\ a.preference = b.preference

\* C1: in step-by-step collection with the origin resolved, a destination
\* input that resolves to the origin's code is rejected: the returned
\* context is still collecting, its destination is unset, its origin, date
\* and preference are as they were, and the response asks for a destination
\* again.
SameCityRejected ==
  [][(/\ route = "server"
      /\ request # <<>>
      /\ ~request[1].missing
      /\ Awaiting(ctx) = "destination"
      /\ request[1].city[TRUE] = ctx.origin)
     => (/\ ctx'.step = "collecting"
         /\ ctx'.destination = NULL
         /\ ctx'.origin = ctx.origin
         /\ ctx'.date = ctx.date
         /\ ctx'.preference = ctx.preference
         /\ Awaiting(ctx') = "destination"
         /\ response'.path \in {"destination_same", "destination_unknown"})]_vars

\* a destination equal to the origin BOM has just been turned down
SameCityRejectedReached ==
  /\ route = "server"
  /\ response.path = "destination_same"
  /\ Awaiting(response.in) = "destination"
  /\ response.in.origin = "BOM"
  /\ ctx.origin = "BOM"
  /\ ctx.destination = NULL

\* C2: every flight search that is issued has an origin code different from
\* its destination code, and so has every context returned with step
\* complete that carries the two codes.
DistinctEndpoints ==
  /\ response.search # <<>> => response.search[1] # response.search[2]
  /\ (ctx.step = "complete" /\ {"origin", "destination"} \subseteq ctx.keys)
       => ctx.origin # ctx.destination

\* C3: in the date confirmation, an affirmative reply makes the inferred
\* date the date of the context and goes on to collect the preference, the
\* origin and the destination being kept.
ConfirmationAccepted ==
  [][(StepByStep /\ ctx.step = "date_confirmation" /\ request[1].yes)
     => (/\ ctx'.date = ctx.inferredDate
         /\ ctx'.origin = ctx.origin
         /\ ctx'.destination = ctx.destination
         /\ Awaiting(ctx') = "preference")]_vars

\* C4: in the date confirmation, a negative reply returns a context whose
\* date is null, whose pending confirmation is cleared and whose step is the
\* collection of the date, the origin and the destination being kept.
ConfirmationRejected ==
  [][(StepByStep /\ ctx.step = "date_confirmation" /\ request[1].no /\ ~request[1].yes)
     => (/\ ctx'.date = NULL
         /\ ctx'.inferredDate = NULL
         /\ ctx'.origin = ctx.origin
         /\ ctx'.destination = ctx.destination
         /\ Awaiting(ctx') = "date")]_vars

\* C5: at the date step a valid date enters the date confirmation, with the
\* date unset, the inferred date pending and Yes and No offered, exactly
\* when it was resolved from a day of the month alone; any other valid date
\* becomes the date of the context and the preference is collected next.
ConfirmationIffInferred ==
  [][(StepByStep /\ Awaiting(ctx) = "date" /\ request[1].date # NULL)
     => IF request[1].dayOnly
        THEN /\ ctx'.step = "date_confirmation"
             /\ ctx'.date = NULL
             /\ ctx'.inferredDate = request[1].date
             /\ Len(response'.actions) >= 2
             /\ response'.actions[1] = "Yes"
             /\ response'.actions[2] = "No"
        ELSE /\ ctx'.date = request[1].date
             /\ ctx'.inferredDate = NULL
             /\ Awaiting(ctx') = "preference"]_vars

\* the branches of server.js that answer a message which gave no valid
\* value for the slot that is being collected
FailurePaths ==
  {"single_origin", "single_destination", "single_date", "origin_unknown",
   "destination_unknown", "destination_same", "date_unknown", "preference_unknown"}

\* C6: at any collecting state, a turn whose message gives no valid value,
\* on whichever parsing path, returns the incoming context, step and
\* resolved slots alike, with at most 6 suggestions, so that sending the bad
\* input again changes nothing.
InvalidInputKeepsContext ==
  [][(/\ route = "server"
      /\ request # <<>>
      /\ ctx.step = "collecting"
      /\ response'.path \in FailurePaths)
     => (SameSlots(ctx', ctx) /\ Len(response'.actions) <= 6)]_vars

\* what the two handlers read from the message "search again"
ServerSearchAgain == ServerInput("search again")

ChatSearchAgain == ChatInput("search again")

\* C7: from step complete, "search again" re-enters the collection and keeps
\* every slot it does not reset: the returned context is collecting and has
\* the origin and the destination of the completed search.
SearchAgainKeepsSlots ==
  [][(/\ request # <<>>
      /\ ~request[1].missing
      /\ ctx.step = "complete"
      /\ request[1] \in (IF route = "server" THEN ServerSearchAgain ELSE ChatSearchAgain))
     => (/\ ctx'.step = "collecting"
         /\ ctx'.origin = ctx.origin
         /\ ctx'.destination = ctx.destination)]_vars

\* C8: at the preference step a message that contains a preference token or
\* synonym is answered in the same turn with step complete and the ranked
\* flights, and no returned context has a searching step of its own.
PreferenceRunsSearch ==
  [][(/\ route = "server"
      /\ request # <<>>
      /\ ~request[1].missing
      /\ Awaiting(ctx) = "preference"
      /\ request[1].pref # NULL)
     => (/\ ctx'.step = "complete"
         /\ response'.search # <<>>
         /\ response'.handed # <<>>
         /\ ctx'.flights # <<>>
         /\ ctx'.step \notin {"search", "searching"})]_vars

\* what server.js reads from a message that its second and its fourth
\* pattern both match
ServerMumbaiToDel == ServerInput("Mumbai to del tomorrow")

\* C9: from the initial state or any collecting state a single utterance
\* whose origin, destination and date all validate is answered in the same
\* turn with the search of exactly these three and step complete, unless the
\* city service fails during the turn; and the first pattern that matches
\* is the one applied.
SingleUtteranceCompletes ==
  [][(/\ route = "server"
      /\ request # <<>>
      /\ ~request[1].missing
      /\ ctx.step \in {"initial", "collecting"})
     => (/\ (/\ request[1].single.matched
             /\ request[1].single.origin[TRUE] # NULL
             /\ request[1].single.destination[TRUE] # NULL
             /\ request[1].single.date # NULL)
            => \/ /\ ctx'.step = "complete"
                  /\ response'.search = <<request[1].single.origin[TRUE],
                                          request[1].single.destination[TRUE],
                                          request[1].single.date>>
                  /\ response'.handed # <<>>
                  /\ ctx'.flights # <<>>
               \/ response'.path \in {"single_origin", "single_destination"}
         /\ request[1] \in ServerMumbaiToDel
            => /\ request[1].single.matched
               /\ request[1].single.origin[TRUE] = "BOM"
               /\ request[1].single.destination[TRUE] = "DEL"
               /\ response'.path \in {"single_complete", "single_origin", "single_destination"})]_vars

\* a collecting context with its origin resolved has just been answered
\* with the results of a single utterance from BOM to DEL
SingleUtteranceCompletesReached ==
  /\ route = "server"
  /\ response.path = "single_complete"
  /\ response.in.step = "collecting"
  /\ response.in.origin # NULL
  /\ ctx.step = "complete"
  /\ ctx.flights # <<>>
  /\ response.search[1] = "BOM"
  /\ response.search[2] = "DEL"

\* C10: a flight source that throws or is unavailable and one that returns
\* an empty result are treated alike: whenever offers are handed to ranking
\* after such a call they are the synthetic generator's, and they are never
\* an empty list.
FallbackFeedsRanking ==
  (/\ response.search # <<>>
   /\ response.outcome \in {"uninitialised", "throws", "empty"}
   /\ response.handed # <<>>)
    => (/\ response.handed[1].source = "mock"
        /\ response.handed[1].count > 0)


\* C11: on the backend route, when the flight source throws or is
\* unavailable in a turn that reaches the search, the ranking is handed a
\* non-empty list of synthetic offers, it completes, and the turn answers
\* with step complete and the ranked flights.
SourceFailureStillRanks ==
  (/\ route = "chat"
   /\ response.search # <<>>
   /\ response.outcome \in {"throws", "uninitialised"})
    => (/\ response.handed # <<>>
        /\ response.path # "error"
        /\ ctx.step = "complete"
        /\ ctx.flights # <<>>)

\* C12: every request is answered, and never by the error reply or with a
\* context whose step is error.
EveryTurnAnswered ==
  /\ response.answered
  /\ response.path # "error"
  /\ ctx.step # "error"

\* the message in flight is a valid value for what context c asks for
ValidAnswer(c, inp) ==
  \/ c.step = "initial"
  \/ Awaiting(c) = "origin" /\ inp.city[TRUE] # NULL
  \/ Awaiting(c) = "destination" /\ inp.city[TRUE] # NULL /\ inp.city[TRUE] # c.origin
  \/ Awaiting(c) = "date" /\ inp.date # NULL
  \/ c.step = "date_confirmation" /\ inp.yes
  \/ Awaiting(c) = "preference" /\ inp.pref # NULL

\* the state that follows state a in the listed order, the confirmation
\* being entered from the date step only
Follows(a, b) ==
  \/ a = "initial" /\ b = "origin"
  \/ a = "origin" /\ b = "destination"
  \/ a = "destination" /\ b = "date"
  \/ a = "date" /\ b \in {"date_confirmation", "preference"}
  \/ a = "date_confirmation" /\ b = "preference"
  \/ a = "preference" /\ b = "complete"

\* the state of the dialogue a context stands for
Stage(c) ==
  IF c.step = "collecting" THEN Awaiting(c) ELSE c.step

\* C13: a step-by-step turn that answers the prompt with a valid value
\* moves the session to the next state of the listed order (or, when the
\* city service fails during the turn, asks again), so that a session of
\* valid answers goes from initial to complete in that order.
ValidAnswersAdvance ==
  [][(StepByStep /\ ValidAnswer(ctx, request[1]))
     => \/ Follows(Stage(ctx), Stage(ctx'))
        \/ /\ response'.path \in {"origin_unknown", "destination_unknown"}
           /\ SameSlots(ctx', ctx)]_vars

-----------------------------------------------------------------------------
(* The contract of the ranking, checked against the two ranking functions *)

\* the positions of a list
Positions(xs) == 1..Len(xs)

\* C14: Cheapest is an offer of the list whose price is the least of all,
\* whatever the preference: the first entry of server.js, and every offer
\* the backend marks cheapest, of which there is at least one.
CheapestIsMinimum ==
  \A k \in Positions(results) :
    Len(offers) > 0 =>
      IF route = "server"
      THEN /\ results[k][1].category = "Cheapest Price"
           /\ results[k][1].flight # <<>>
           /\ \E i \in Positions(offers) : offers[i] = results[k][1].flight[1]
           /\ \A i \in Positions(offers) : results[k][1].flight[1].price <= offers[i].price
      ELSE /\ \E i \in Positions(results[k]) : results[k][i].ranking.cheapest
           /\ \A i \in Positions(results[k]) :
                results[k][i].ranking.cheapest
                  => \A j \in Positions(offers) :
                       parseFloat(results[k][i].flight.total) <= parseFloat(offers[j].total)

\* server.js has ranked three flights of which the first supplied is not
\* the cheapest
CheapestIsMinimumReached ==
  /\ route = "server"
  /\ Len(offers) = 3
  /\ Len(results) > 0
  /\ results[1][1].flight # <<>>
  /\ results[1][1].flight[1].price < offers[1].price

\* C15: Shortest is the offer of least duration among the nonstop offers
\* when there is one, and the offer of least duration of all only when
\* there is none.
ShortestAmongNonstop ==
  \A k \in Positions(results) :
    Len(offers) > 0 =>
      IF route = "server"
      THEN LET nonstop == {i \in Positions(offers) : offers[i].stops = 0}
               among   == IF nonstop # {} THEN nonstop ELSE Positions(offers)
           IN /\ results[k][2].flight # <<>>
              /\ \E i \in among : offers[i] = results[k][2].flight[1]
              /\ \A i \in among : results[k][2].flight[1].duration <= offers[i].duration
      ELSE LET nonstop == {i \in Positions(results[k]) : results[k][i].flight.segments = 1}
               among   == IF nonstop # {} THEN nonstop ELSE Positions(results[k])
               fastest == {i \in Positions(results[k]) : results[k][i].ranking.fastest}
           IN /\ fastest # {}
              /\ fastest \subseteq among
              /\ \A i \in fastest : \A j \in among :
                   _parseDurationToMinutes(results[k][i].flight.duration)
                     <= _parseDurationToMinutes(results[k][j].flight.duration)

\* C16: MostConvenient is the offer of greatest composite score among the
\* nonstop offers, and of greatest composite score of all when there is no
\* nonstop offer.  server.js computes no composite score: of its entry
\* only the choice among the nonstop offers is stated.
MostConvenientAmongNonstop ==
  \A k \in Positions(results) :
    Len(offers) > 0 =>
      IF route = "server"
      THEN LET nonstop == {i \in Positions(offers) : offers[i].stops = 0}
           IN /\ results[k][3].flight # <<>>
              /\ nonstop # {} => \E i \in nonstop : offers[i] = results[k][3].flight[1]
      ELSE LET nonstop == {i \in Positions(results[k]) : results[k][i].flight.segments = 1}
               among   == IF nonstop # {} THEN nonstop ELSE Positions(results[k])
               marked  == {i \in Positions(results[k]) : results[k][i].ranking.mostConvenient}
           IN /\ marked # {}
              /\ marked \subseteq among
              /\ \A i \in marked : \A j \in among : results[k][i].score >= results[k][j].score

\* C17: in the ranked list of the backend, of two offers with the same
\* composite score the one with the lower price comes first, and at equal
\* price the one with the shorter duration.
TiesBrokenByPrice ==
  \A k \in Positions(results) :
    route = "chat" =>
      \A i, j \in Positions(results[k]) :
        (i < j /\ results[k][i].score = results[k][j].score)
          => LET pi == parseFloat(results[k][i].flight.total)
                 pj == parseFloat(results[k][j].flight.total)
                 di == _parseDurationToMinutes(results[k][i].flight.duration)
                 dj == _parseDurationToMinutes(results[k][j].flight.duration)
             IN pi < pj \/ (pi = pj /\ di <= dj)

AllIsRanked ==
  \A k \in Positions(results) :
    route = "chat" =>
      /\ Len(results[k]) = Len(offers)
      /\ \A i \in Positions(offers) :
           Cardinality({p \in Positions(results[k]) : results[k][p].flight = offers[i]}) = 1
      /\ \A p \in Positions(results[k]) :
           /\ results[k][p].rank = p
           /\ results[k][p].score = _calculateScore(results[k][p].flight, wanted)
           /\ p > 1 => results[k][p - 1].score >= results[k][p].score

\* the backend has ranked three offers whose scores are all different and
\* of which the first supplied is not the best
AllIsRankedReached ==
  /\ route = "chat"
  /\ Len(offers) = 3
  /\ Len(results) > 0
  /\ results[1][1].flight # offers[1]
  /\ results[1][1].score > results[1][2].score
  /\ results[1][2].score > results[1][3].score

\* C20: ranking an empty list returns an empty list, with no entry for any
\* of the three categories.
EmptyListGivesNothing ==
  \A k \in Positions(results) : Len(offers) = 0 => results[k] = <<>>

\* C21: when the list holds one offer, each of the three categories
\* designates that offer, whatever its stops, departure hour and price:
\* the three entries of server.js hold it, and the backend marks it
\* cheapest, fastest and mostConvenient.
SingleOfferTakesAll ==
  \A k \in Positions(results) :
    Len(offers) = 1 =>
      IF route = "server"
      THEN /\ Len(results[k]) = 3
           /\ \A c \in 1..3 : results[k][c].flight = <<offers[1]>>
      ELSE /\ Len(results[k]) = 1
           /\ results[k][1].flight = offers[1]
           /\ results[k][1].ranking.cheapest
           /\ results[k][1].ranking.fastest
           /\ results[k][1].ranking.mostConvenient

\* C22: the result of server.js is three entries, Cheapest, Shortest and
\* Most Convenient in that order, also when two of them hold the same
\* offer; of the offers FL1 (3000, 90 minutes, nonstop) and FL2 (9000, 60
\* minutes, nonstop) the first entry holds FL1 and the second FL2.
ThreeSeparateEntries ==
  \A k \in Positions(results) :
    route = "server" =>
      /\ Len(results[k]) = 3
      /\ results[k][1].category = "Cheapest Price"
      /\ results[k][2].category = "Shortest Duration"
      /\ results[k][3].category = "Most Convenient"
      /\ {offers[i].id : i \in Positions(offers)} = {"FL1", "FL2"}
           => /\ results[k][1].flight # <<>> /\ results[k][1].flight[1].id = "FL1"
              /\ results[k][2].flight # <<>> /\ results[k][2].flight[1].id = "FL2"

\* server.js has ranked a list of two offers of which one is both the
\* cheapest and the shortest
ThreeSeparateEntriesReached ==
  /\ route = "server"
  /\ Len(offers) = 2
  /\ Len(results) > 0
  /\ results[1][1].flight # <<>>
  /\ results[1][1].flight = results[1][2].flight

-----------------------------------------------------------------------------
(* The contract of the date parsers *)

\* the date a parse returned, as a date
ReturnedDate(k) == ParseISOStrict(resolved[k].date, now)

\* the date a text denotes under the formats of the list, the first
\* format that fits it deciding
Denoted(text) == StrictParseAny(text, formats, now)

\* C23: whatever the text and the day, a parse returns null or the
\* canonical form of a date that is not before today.
NeverBeforeToday ==
  \A k \in Positions(resolved) :
    resolved[k].date # NULL
      => /\ ReturnedDate(k) # NoDate
         /\ DayNum(ReturnedDate(k)) >= DayNum(now)

\* server.js was given a date of the list's formats that is already past
\* and returned null
PastDateRejected ==
  /\ route = "server"
  /\ Len(resolved) > 0
  /\ Denoted(typed) # NoDate
  /\ DayNum(Denoted(typed)) < DayNum(now)
  /\ resolved[1].date = NULL

\* C24: a parse returns today's date only when the text is the keyword
\* today.
TodayOnlyByKeyword ==
  \A k \in Positions(resolved) :
    resolved[k].date = FormatISO(now) => toLowerCase(trim(resolved[k].text)) = "today"

\* C25: a text written in one of the formats of the list that denotes a
\* date of the calendar not before today resolves to that date, and is not
\* taken as a partial date.
ExplicitFormatExact ==
  (/\ Len(resolved) > 0
   /\ Denoted(typed) # NoDate
   /\ DayNum(Denoted(typed)) >= DayNum(now))
    => /\ resolved[1].date = FormatISO(Denoted(typed))
       /\ ~resolved[1].inferred

\* C26: when a text written in one of the formats of the list was resolved
\* to a date, parsing that date in its canonical form on the same day
\* gives the same date again.
CanonicalParsesToItself ==
  (/\ Len(resolved) > 1
   /\ Denoted(typed) # NoDate)
    => resolved[2].date = resolved[1].date

ConfirmationOptions ==
  \A k \in Positions(resolved) :
    (resolved[k].inferred /\ resolved[k].date # NULL)
      => LET D       == ReturnedDate(k)
             opts    == resolved[k].options
             sameDay == {dt \in {IF D[2] = 12 THEN <<D[1] + 1, 1, D[3]>>
                                 ELSE <<D[1], D[2] + 1, D[3]>>,
                                 <<D[1] + 1, D[2], D[3]>>} :
                           ValidYMD(dt[1], dt[2], dt[3])}
             near    == {AddDays(D, 0 - 1), AddDays(D, 1)}
             allowed == {FormatDMY(dt) : dt \in {x \in sameDay \cup near : DayNum(x) > DayNum(now)}}
         IN /\ Len(opts) >= 2 /\ Len(opts) <= 6
            /\ opts[1] = "Yes" /\ opts[2] = "No"
            /\ \A i \in 3..Len(opts) : opts[i] \in allowed
            /\ \A i, j \in Positions(opts) : i # j => opts[i] # opts[j]
            /\ (now = <<2025, 12, 10>> /\ resolved[k].text = "25")
                 => /\ resolved[k].date = "2025-12-25"
                    /\ \E i \in Positions(opts) : opts[i] = "25 Jan 2026"
                    /\ \E i \in Positions(opts) : opts[i] = "25 Dec 2026"

\* C29: next and a weekday resolves to a date that falls on that weekday
\* and is 7 days or more after today.
NextWeekdaySevenDaysOut ==
  \A i \in 1..7 :
    (Len(resolved) > 0 /\ typed = "next " \o daysOfWeek[i])
      => /\ resolved[1].date # NULL
         /\ Weekday(ReturnedDate(1)) = i - 1
         /\ DayNum(ReturnedDate(1)) >= DayNum(now) + 7

\* C30: this and a weekday resolves to the first day on or after today
\* that falls on that weekday: today itself when today is that weekday.
ThisWeekdayNearest ==
  \A i \in 1..7 :
    (Len(resolved) > 0 /\ typed = "this " \o daysOfWeek[i])
      => /\ resolved[1].date # NULL
         /\ Weekday(ReturnedDate(1)) = i - 1
         /\ DayNum(ReturnedDate(1)) >= DayNum(now)
         /\ DayNum(ReturnedDate(1)) <= DayNum(now) + 6

\* C38: in both parsers the text tomorrow resolves to the day after today
\* and the text day after tomorrow to the day two days after today.
KeywordOffsets ==
  Len(resolved) > 0
    => /\ typed = "tomorrow" => resolved[1].date = FormatISO(AddDays(now, 1))
       /\ typed = "day after tomorrow" => resolved[1].date = FormatISO(AddDays(now, 2))

-----------------------------------------------------------------------------
(* The contract of the scores *)

\* the composite score, in hundredths, that a weight vector in hundredths
\* gives a flight
WeightedScore(w, flight) ==
  (2 * (w.price * _calculatePriceScore(flight) * 7
          + w.duration * _calculateDurationScore(flight) * 800
          + (w.convenience * _calculateConvenienceScore(flight)
               + w.reliability * _calculateReliabilityScore(flight)) * 33600)
     + 336000) \div 672000

\* C35: the score is made with the price-weighted vector for price, the
\* time-weighted one for time, the convenience-weighted one for
\* convenience, and with the balanced vector 0.4 / 0.3 / 0.2 / 0.1 when the
\* preference is left out or null; the call does not throw.
WeightsByPreference ==
  \A k \in Positions(results) :
    wanted \in Preferences \cup {UNDEFINED, NULL}
      => LET vector == IF wanted = "price"
                       THEN [price |-> 70, duration |-> 20, convenience |-> 5, reliability |-> 5]
                       ELSE IF wanted = "time"
                       THEN [price |-> 20, duration |-> 60, convenience |-> 15, reliability |-> 5]
                       ELSE IF wanted = "convenience"
                       THEN [price |-> 20, duration |-> 20, convenience |-> 50, reliability |-> 10]
                       ELSE [price |-> 40, duration |-> 30, convenience |-> 20, reliability |-> 10]
         IN /\ ~results[k].threw
            /\ \A i \in Positions(results[k].all) :
                 results[k].all[i].score = WeightedScore(vector, results[k].all[i].flight)

\* C36: the convenience score of a scored offer is, in tenths, the least
\* of 10 and 5, plus 3 for no stop or 1 for one stop, plus 2 for a
\* departure hour from 6 up to but not 10 or 1 for an hour from 17 up to
\* but not 21.
ConvenienceHalfOpen ==
  \A k \in Positions(results) : \A i \in Positions(offers) :
    LET stops == offers[i].segments - 1
        hour  == _getDepartureTime(offers[i])
    IN _calculateConvenienceScore(offers[i])
         = Min(10, 5 + (IF stops = 0 THEN 3 ELSE IF stops = 1 THEN 1 ELSE 0)
                     + (IF hour >= 6 /\ hour < 10 THEN 2
                        ELSE IF hour >= 17 /\ hour < 21 THEN 1 ELSE 0))

-----------------------------------------------------------------------------
(* The arguments of the search and the life of a pending confirmation *)

\* C34: every flight search issued by the step-by-step flow when the
\* preference is resolved is called with the origin code, the destination
\* code and the date held in the context of that turn, and never with a
\* missing or undefined origin or destination code
SearchCalledWithContextSlots ==
  response.path = "preference_complete" =>
    /\ response.search = <<response.in.origin, response.in.destination,
                           response.in.date>>
    /\ response.search[1] \notin {NULL, "undefined"}
    /\ response.search[2] \notin {NULL, "undefined"}

\* the keys of a pending date confirmation
PendingKeys == {"inferredDate", "originalInput", "alternatives"}

\* C32: the pending date confirmation (inferred date, original input,
\* alternatives) is present in a context only while its step is
\* date_confirmation, and no context returned for a turn taken in step
\* date_confirmation that left that step still carries any part of it
PendingOnlyWhileConfirming ==
  /\ ctx.keys \cap PendingKeys # {} => ctx.step = "date_confirmation"
  /\ (response.answered /\ response.in.step = "date_confirmation"
        /\ ctx.step # "date_confirmation")
       => /\ ctx.keys \cap PendingKeys = {}
          /\ ctx.inferredDate = NULL
          /\ ctx.originalInput = NULL
          /\ ctx.alternatives = <<>>

\* a turn taken while a confirmation was pending has been answered with a
\* context that left the confirmation step
ConfirmationLeft ==
  /\ response.answered
  /\ response.in.step = "date_confirmation"
  /\ response.in.keys \cap PendingKeys = PendingKeys
  /\ ctx.step # "date_confirmation"

-----------------------------------------------------------------------------
(* The contract of the city lookup *)

\* C39: validateCity never returns a cache entry stored 5 minutes or more
\* earlier: an expired entry is deleted on access and the city is resolved
\* again, and only non-null resolutions are ever stored in the cache
ExpiredEntryNeverReturned ==
  /\ \A k \in 1..Len(resolved) :
       LET call == resolved[k]
           city == CityReading(call.cityName)
           again == IF city.api[call.up] # NULL THEN city.api[call.up] ELSE city.local
       IN /\ call.cached =>
               /\ call.entry # <<>>
               /\ call.at - call.entry[1].timestamp < 5 * 60 * 1000
               /\ call.data = call.entry[1].data
          /\ (call.entry # <<>> /\ call.at - call.entry[1].timestamp >= 5 * 60 * 1000) =>
               /\ ~call.cached
               /\ call.data = again
               /\ \/ call.normalizedName \notin DOMAIN cache
                  \/ cache[call.normalizedName].timestamp >= call.at
  /\ \A n \in DOMAIN cache : cache[n].data # NULL

\* validateCity has been called for a name whose entry was stored exactly
\* five minutes earlier, and has resolved the name again
ExpiredEntryAccessed ==
  /\ resolved # <<>>
  /\ resolved[1].entry # <<>>
  /\ resolved[1].at - resolved[1].entry[1].timestamp = 5 * 60 * 1000
  /\ ~resolved[1].cached
  /\ resolved[1].data # NULL

\* how much of the longer of two names the shorter one covers, in percent,
\* when one of them contains the other; 0 for an empty name
Similarity(a, b) ==
  IF Len(a) = 0 \/ Len(b) = 0 THEN 0
  ELSE IF Includes(a, b) THEN (Len(b) * 100) \div Len(a)
  ELSE IF Includes(b, a) THEN (Len(a) * 100) \div Len(b)
  ELSE 0

\* C31: city resolution accepts exact and alias matches, accepts a fuzzy
\* match only when its similarity is above a threshold, and otherwise
\* returns null: a name that is not the name or an alias of a city and has
\* no similarity to one is never resolved to a city
NeverGuessesCity ==
  \A k \in 1..Len(resolved) :
    LET call == resolved[k]
    IN call.data # NULL =>
         \/ \E i \in 1..Len(cityMappings) :
              cityMappings[i] = <<call.normalizedName, call.data>>
         \/ \E i \in 1..Len(CityDirectory) :
              CityDirectory[i] = <<call.normalizedName, call.data>>
         \/ \E i \in 1..Len(cityMappings) :
              /\ cityMappings[i][2] = call.data
              /\ Similarity(call.normalizedName, cityMappings[i][1]) > 0

-----------------------------------------------------------------------------
(* The independence of sessions *)

\* C33: turns of distinct sessions may be interleaved arbitrarily: the
\* contexts each session obtains are the ones it obtains when it runs
\* alone, so nothing another session did shows in a session's context
SessionsIndependent ==
  \A s \in Sessions : ctx[s] = results[s].ctx

=============================================================================
